---- MODULE Spec2Model ----
(***************************************************************************)
(* A model of the TetanusAttack board core: the Grid operations of         *)
(* src/src/game.rs and the per-player chain / garbage orchestration of     *)
(* src/src/main.rs.                                                        *)
(*                                                                         *)
(* Grid operations are pure functions of a board; they are modelled as     *)
(* operators and exercised by specifications whose Init draws a board from *)
(* a bounded family and whose actions apply the operation, recording the   *)
(* call (arguments, board before, return value) in the variable `last`.    *)
(***************************************************************************)
EXTENDS Integers, Sequences, FiniteSets, TLC

VARIABLES
    grid,      \* the Grid a grid-level specification operates on; 0 x 0 in the
               \* game-level ones, where the boards are the environment
    last,      \* record of the last call: its name, arguments, result
    players,   \* Players: P1, P2 -> PlayerState
    match,     \* GameMode, MatchOver
    frame      \* the frame being run in SpecPlay: Time::delta in ticks and how
               \* many systems have run in it; NoFrame elsewhere

vars == <<grid, last, players, match, frame>>

NoFrame == [delta |-> 0, ran |-> 0, count |-> 0]

(***************************************************************************)
(* Bounds of the explored instances.                                       *)
(***************************************************************************)
MaxW == 3            \* widest board drawn
MaxH == 3            \* tallest board drawn
NumColors == 2       \* colours drawn, out of the five of BlockColor
SmallCells == 4      \* most cells of a board in specifications with call arguments
MaxRows == 2         \* most garbage rows passed in one insertion
MaxChainIndex == 3   \* highest chain_index drawn in SpecAddGarbage
MaxCleared == 9      \* most cells cleared in one pass in SpecAddGarbage
MaxIncoming == 6     \* highest garbage_incoming reached in SpecResolve
MaxOutgoing == 3     \* highest garbage_outgoing drawn in SpecResolve
MaxBigClear == 28    \* the large clear drawn in Spec, more than fills the cap at once
MaxGameChain == 2    \* highest chain_index reached in Spec
MaxGameIncoming == 24 \* highest garbage_incoming reached in Spec
MaxCells == 6        \* most cells of a board in specifications without call arguments
GravityTicks == 2    \* GRAVITY_STEP_SECONDS in ticks
ClearTicks == 2      \* CLEAR_DELAY_SECONDS in ticks (the same 0.1 s as a gravity step)
RisePauseTicks == 3  \* RISE_PAUSE_SECONDS in ticks
RiseTicks == 4       \* RISE_SECONDS in ticks
MaxDelta == 1        \* longest frame, in ticks
MaxFrames == 14      \* frames of a game followed in SpecPlay
MaxStep == 2         \* largest |dx| and |dy| passed to move_by in SpecCursor
PlayW == 2           \* width of the board played on in SpecPlay
PlayH == 4           \* height of the board played on in SpecPlay

(***************************************************************************)
(* Program constants.                                                      *)
(***************************************************************************)
GRID_W == 6
GRID_H == 12

(***************************************************************************)
(* game.rs: BlockColor, Block, Option<Block>.                              *)
(***************************************************************************)
BlockColor == <<"Red", "Green", "Blue", "Yellow", "Purple">>

Colors == {BlockColor[i] : i \in 1..NumColors}

None == [kind |-> "None"]

Normal(c) == [kind |-> "Normal", color |-> c]

Garbage(b) == [kind |-> "Garbage", cracked |-> b]

IsSome(cell) == cell.kind # "None"

\* Option<Block>.map(|b| b.is_garbage()).unwrap_or(false)
IsGarbage(cell) == cell.kind = "Garbage"

IsNormal(cell) == cell.kind = "Normal"

CellValues == {None} \cup {Normal(c) : c \in Colors} \cup {Garbage(b) : b \in BOOLEAN}

(***************************************************************************)
(* game.rs: Grid.  cells is the row-major Vec, indexed from 0; y = 0 is    *)
(* the bottom row.                                                         *)
(***************************************************************************)
GridNew(w, h) == [width |-> w, height |-> h, cells |-> [i \in 0..(w * h - 1) |-> None]]

Idx(g, x, y) == y * g.width + x

Get(g, x, y) == g.cells[Idx(g, x, y)]

Set(g, x, y, b) == [g EXCEPT !.cells[Idx(g, x, y)] = b]

\* Vec::swap of two indices
Swap(g, ax, ay, bx, by) ==
    LET a == Idx(g, ax, ay)
        b == Idx(g, bx, by)
    IN  [g EXCEPT !.cells = [i \in DOMAIN g.cells |->
                                IF i = a THEN g.cells[b]
                                ELSE IF i = b THEN g.cells[a]
                                ELSE g.cells[i]]]

SwapCmd(ax, ay, bx, by) == [ax |-> ax, ay |-> ay, bx |-> bx, by |-> by]

RightOf(x, y) == SwapCmd(x, y, x + 1, y)

\* A plausible slip: only the first cell is tested for garbage.
SwapInBoundsFirstOnly(g, cmd) ==
    IF \/ cmd.ax >= g.width
       \/ cmd.bx >= g.width
       \/ cmd.ay >= g.height
       \/ cmd.by >= g.height
    THEN [grid |-> g, ret |-> FALSE]
    ELSE IF IsGarbage(Get(g, cmd.ax, cmd.ay))
    THEN [grid |-> g, ret |-> FALSE]
    ELSE [grid |-> Swap(g, cmd.ax, cmd.ay, cmd.bx, cmd.by), ret |-> TRUE]

SwapInBounds(g, cmd) ==
    IF \/ cmd.ax >= g.width
       \/ cmd.bx >= g.width
       \/ cmd.ay >= g.height
       \/ cmd.by >= g.height
    THEN [grid |-> g, ret |-> FALSE]
    ELSE IF \/ IsGarbage(Get(g, cmd.ax, cmd.ay))
            \/ IsGarbage(Get(g, cmd.bx, cmd.by))
    THEN [grid |-> g, ret |-> FALSE]
    ELSE [grid |-> Swap(g, cmd.ax, cmd.ay, cmd.bx, cmd.by), ret |-> TRUE]

(***************************************************************************)
(* game.rs: Grid::insert_garbage_rows_from_top.  rows is a sequence of     *)
(* masks; rows[r][x + 1] is the code's rows[r - 1][x].                     *)
(***************************************************************************)
\* A plausible slip: the rows are laid from the bottom edge (start_y = 0).
InsertTargetsFromBottom(g, rows) ==
    {Idx(g, x, r - 1) : <<r, x>> \in
        {p \in (1..Len(rows)) \X (0..(g.width - 1)) : rows[p[1]][p[2] + 1]}}

\* The cells the second loop writes: (x, start_y + row_idx) for every true mask entry.
InsertTargets(g, rows) ==
    LET start_y == g.height - Len(rows)
    IN  {Idx(g, x, start_y + (r - 1)) : <<r, x>> \in
            {p \in (1..Len(rows)) \X (0..(g.width - 1)) : rows[p[1]][p[2] + 1]}}

\* A plausible slip: rows are checked and written one at a time, so a later
\* occupied row aborts after earlier rows were written.
InsertGarbageRowsRowByRow(g, rows) ==
    IF Len(rows) = 0 THEN [grid |-> g, ret |-> TRUE]
    ELSE IF Len(rows) > g.height THEN [grid |-> g, ret |-> FALSE]
    ELSE IF \E r \in 1..Len(rows) : Len(rows[r]) # g.width THEN [grid |-> g, ret |-> FALSE]
    ELSE
        LET start_y == g.height - Len(rows)
            RowFree(r) == \A x \in 0..(g.width - 1) :
                            ~(rows[r][x + 1] /\ IsSome(Get(g, x, start_y + (r - 1))))
            good == {r \in 1..Len(rows) : \A q \in 1..r : RowFree(q)}
            written == {Idx(g, x, start_y + (r - 1)) : <<r, x>> \in
                          {p \in good \X (0..(g.width - 1)) : rows[p[1]][p[2] + 1]}}
        IN  [grid |-> [g EXCEPT !.cells = [i \in DOMAIN g.cells |->
                            IF i \in written THEN Garbage(FALSE) ELSE g.cells[i]]],
             ret |-> good = 1..Len(rows)]

InsertGarbageRowsFromTop(g, rows) ==
    IF Len(rows) = 0 THEN [grid |-> g, ret |-> TRUE]
    ELSE IF Len(rows) > g.height THEN [grid |-> g, ret |-> FALSE]
    ELSE IF \E r \in 1..Len(rows) : Len(rows[r]) # g.width THEN [grid |-> g, ret |-> FALSE]
    ELSE IF \E i \in InsertTargets(g, rows) : IsSome(g.cells[i])
    THEN [grid |-> g, ret |-> FALSE]
    ELSE [grid |-> [g EXCEPT !.cells = [i \in DOMAIN g.cells |->
                        IF i \in InsertTargets(g, rows) THEN Garbage(FALSE) ELSE g.cells[i]]],
          ret |-> TRUE]

(***************************************************************************)
(* game.rs: match detection.  A marks vector is a function from cell index *)
(* to BOOLEAN.                                                             *)
(***************************************************************************)
XOf(g, i) == i % g.width

YOf(g, i) == i \div g.width

SameColor(g, ax, ay, bx, by) ==
    LET a == Get(g, ax, ay)
        b == Get(g, bx, by)
    IN  IsNormal(a) /\ IsNormal(b) /\ a.color = b.color

\* A plausible slip: a run of two already counts as a match.
RECURSIVE RunScanFromTwo(_, _, _, _, _)
RunScanFromTwo(same, n, k, run_start, run_len) ==
    IF k >= n
    THEN IF run_len >= 2 THEN run_start..(run_start + run_len - 1) ELSE {}
    ELSE IF same[k]
    THEN RunScanFromTwo(same, n, k + 1, run_start, run_len + 1)
    ELSE (IF run_len >= 2 THEN run_start..(run_start + run_len - 1) ELSE {})
         \cup RunScanFromTwo(same, n, k + 1, k, 1)

\* The scan of one row or column of n cells, from position k on: same[k] says
\* whether cell k has the colour of cell k - 1.  Returns the positions marked.
RECURSIVE RunScan(_, _, _, _, _)
RunScan(same, n, k, run_start, run_len) ==
    IF k >= n
    THEN IF run_len >= 3 THEN run_start..(run_start + run_len - 1) ELSE {}
    ELSE IF same[k]
    THEN RunScan(same, n, k + 1, run_start, run_len + 1)
    ELSE (IF run_len >= 3 THEN run_start..(run_start + run_len - 1) ELSE {})
         \cup RunScan(same, n, k + 1, k, 1)

HorizontalMarks(g) ==
    UNION {
        LET same == [x \in 1..(g.width - 1) |-> SameColor(g, x, y, x - 1, y)]
        IN  {Idx(g, rx, y) : rx \in RunScan(same, g.width, 1, 0, 1)}
        : y \in 0..(g.height - 1)}

VerticalMarks(g) ==
    UNION {
        LET same == [y \in 1..(g.height - 1) |-> SameColor(g, x, y, x, y - 1)]
        IN  {Idx(g, x, ry) : ry \in RunScan(same, g.height, 1, 0, 1)}
        : x \in 0..(g.width - 1)}

\* A plausible slip: only the columns are scanned.
FindMatchesColumnsOnly(g) ==
    [i \in DOMAIN g.cells |-> i \in VerticalMarks(g)]

\* A plausible slip: only the rows are scanned.
FindMatchesRowsOnly(g) ==
    [i \in DOMAIN g.cells |-> i \in HorizontalMarks(g)]

FindMatches(g) ==
    [i \in DOMAIN g.cells |-> i \in HorizontalMarks(g) \cup VerticalMarks(g)]

HasMatches(g) == \E i \in DOMAIN g.cells : FindMatches(g)[i]

\* The four neighbours of cell i that lie on the board.
Neighbors(g, i) ==
    LET cx == XOf(g, i)
        cy == YOf(g, i)
    IN  (IF cx > 0 THEN {Idx(g, cx - 1, cy)} ELSE {})
        \cup (IF cx + 1 < g.width THEN {Idx(g, cx + 1, cy)} ELSE {})
        \cup (IF cy > 0 THEN {Idx(g, cx, cy - 1)} ELSE {})
        \cup (IF cy + 1 < g.height THEN {Idx(g, cx, cy + 1)} ELSE {})

\* The stack-based flood fill: the cells of `member` reached from `seen`.
RECURSIVE Flood(_, _, _)
Flood(g, member, seen) ==
    LET more == {n \in member \ seen : \E c \in seen : n \in Neighbors(g, c)}
    IN  IF more = {} THEN seen ELSE Flood(g, member, seen \cup more)

\* The scan in index order (y outer, x inner): each cell of `member` not yet
\* visited starts one flood fill.  Returns the components in scan order.
RECURSIVE Components(_, _, _)
Components(g, member, visited) ==
    LET open == member \ visited
    IN  IF open = {} THEN <<>>
        ELSE LET seed == CHOOSE i \in open : \A j \in open : i <= j
                 comp == Flood(g, member, {seed})
             IN  <<comp>> \o Components(g, member, visited \cup comp)

\* A plausible slip: the flood fill does not record the cells it visits, so
\* every marked cell starts a group.
CountMatchGroupsPerCell(g, marks) ==
    Cardinality({i \in DOMAIN marks : marks[i]})

CountMatchGroups(g, marks) ==
    Len(Components(g, {i \in DOMAIN marks : marks[i]}, {}))

\* Returns the grid after clearing and the number of cells cleared.
ClearMatches(g, marks) ==
    [grid |-> [g EXCEPT !.cells = [i \in DOMAIN g.cells |->
                    IF marks[i] THEN None ELSE g.cells[i]]],
     cleared |-> Cardinality({i \in DOMAIN g.cells : marks[i]})]

ClearMatchesOnceWithStats(g) ==
    LET marks == FindMatches(g)
    IN  IF \A i \in DOMAIN marks : ~marks[i]
        THEN [grid |-> g, cleared |-> 0, groups |-> 0, marks |-> marks]
        ELSE LET groups == CountMatchGroups(g, marks)
                 c == ClearMatches(g, marks)
             IN  [grid |-> c.grid, cleared |-> c.cleared, groups |-> groups, marks |-> marks]

(***************************************************************************)
(* game.rs: gravity.                                                       *)
(***************************************************************************)
GarbageCells(g) == {i \in DOMAIN g.cells : IsGarbage(g.cells[i])}

GarbageComponents(g) == Components(g, GarbageCells(g), {})

\* A plausible slip: support is tested cell by cell, so a cell of a component
\* falls when the cell below it is free even if another cell of it is held.
CanFallPerCell(g, comp) ==
    \E i \in comp :
        /\ YOf(g, i) # 0
        /\ LET below == Idx(g, XOf(g, i), YOf(g, i) - 1)
           IN  ~(IsSome(g.cells[below]) /\ below \notin comp)

\* can_fall of one component, against the snapshot.
CanFall(g, comp) ==
    \A i \in comp :
        /\ YOf(g, i) # 0
        /\ LET below == Idx(g, XOf(g, i), YOf(g, i) - 1)
           IN  ~(IsSome(g.cells[below]) /\ below \notin comp)

\* A plausible slip: a normal block falls whenever no normal block is below it,
\* onto a garbage cell too.
NormalMovesOntoGarbage(g) ==
    {i \in DOMAIN g.cells :
        /\ YOf(g, i) >= 1
        /\ IsNormal(g.cells[i])
        /\ ~IsNormal(g.cells[i - g.width])}

\* normal_moves: the indices of normal blocks with an empty cell below.
NormalMoves(g) ==
    {i \in DOMAIN g.cells :
        /\ YOf(g, i) >= 1
        /\ IsNormal(g.cells[i])
        /\ ~IsSome(g.cells[i - g.width])}

\* garbage_moves: the indices of all cells of components that can fall.
GarbageMoves(g) ==
    LET comps == GarbageComponents(g)
    IN  UNION {comps[k] : k \in {j \in 1..Len(comps) : CanFall(g, comps[j])}}

\* A plausible slip: normal blocks hanging over a gap are left where they are.
ApplyGravityStepGarbageOnly(g) ==
    IF g.height < 2 THEN [grid |-> g, moved |-> FALSE]
    ELSE
        LET from == GarbageMoves(g)
        IN  IF from = {} THEN [grid |-> g, moved |-> FALSE]
            ELSE [grid |-> [g EXCEPT !.cells = [i \in DOMAIN g.cells |->
                                IF (i + g.width) \in from THEN g.cells[i + g.width]
                                ELSE IF i \in from THEN None
                                ELSE g.cells[i]]],
                  moved |-> TRUE]

ApplyGravityStep(g) ==
    IF g.height < 2 THEN [grid |-> g, moved |-> FALSE]
    ELSE
        LET from == NormalMoves(g) \cup GarbageMoves(g)
        IN  IF from = {} THEN [grid |-> g, moved |-> FALSE]
            ELSE [grid |-> [g EXCEPT !.cells = [i \in DOMAIN g.cells |->
                                IF (i + g.width) \in from THEN g.cells[i + g.width]
                                ELSE IF i \in from THEN None
                                ELSE g.cells[i]]],
                  moved |-> TRUE]

(***************************************************************************)
(* game.rs: the rising row, garbage cracking and conversion, the cursor.   *)
(***************************************************************************)
\* A plausible slip: the top row is never found occupied.
TopRowNeverOccupied(g) == FALSE

TopRowOccupied(g) ==
    IF g.height = 0 THEN FALSE
    ELSE \E x \in 0..(g.width - 1) : IsSome(Get(g, x, g.height - 1))

\* A plausible slip: a component counts as falling as soon as one of its cells
\* has room below.
HasFallingGarbagePerCell(g) ==
    LET comps == GarbageComponents(g)
    IN  \E k \in 1..Len(comps) : CanFallPerCell(g, comps[k])

\* True iff some garbage component can fall (the can_fall of apply_gravity_step).
HasFallingGarbage(g) ==
    LET comps == GarbageComponents(g)
    IN  \E k \in 1..Len(comps) : CanFall(g, comps[k])

\* Option<Block>.and_then(Block::color).map(|b| b == color).unwrap_or(false),
\* for a cell that may lie off the board.
HasColor(g, x, y, color) ==
    /\ x >= 0 /\ x < g.width /\ y >= 0 /\ y < g.height
    /\ IsNormal(Get(g, x, y))
    /\ Get(g, x, y).color = color

\* A plausible slip: the column above the cell is not tested.
WouldCreateMatchRowOnly(g, x, y, color) ==
    \/ HasColor(g, x - 1, y, color) /\ HasColor(g, x - 2, y, color)
    \/ HasColor(g, x + 1, y, color) /\ HasColor(g, x + 2, y, color)
    \/ HasColor(g, x - 1, y, color) /\ HasColor(g, x + 1, y, color)

WouldCreateMatch(g, x, y, color) ==
    LET horiz_left == HasColor(g, x - 1, y, color) /\ HasColor(g, x - 2, y, color)
        horiz_right == HasColor(g, x + 1, y, color) /\ HasColor(g, x + 2, y, color)
        horiz_split == HasColor(g, x - 1, y, color) /\ HasColor(g, x + 1, y, color)
    IN  \/ horiz_left \/ horiz_right \/ horiz_split
        \/ /\ y + 2 < g.height
           /\ HasColor(g, x, y + 1, color)
           /\ HasColor(g, x, y + 2, color)

\* The bounded retry loop at cell (x, y): it ends with a colour that passes
\* would_create_match, or, when the first draw and the ten redraws all failed
\* the test (exhausted), with the last colour drawn.
ColorOutcomes(g, x, y) ==
    {[color |-> c, exhausted |-> WouldCreateMatch(g, x, y, c)] : c \in Colors}

\* Cells x, x + 1, ... of row y filled left to right from the outcome o (a
\* grid and whether a retry loop was exhausted so far): the set of outcomes.
RECURSIVE FillRowFrom(_, _, _)
FillRowFrom(o, x, y) ==
    IF x >= o.grid.width THEN {o}
    ELSE UNION {FillRowFrom([grid |-> Set(o.grid, x, y, Normal(c.color)),
                             exhausted |-> o.exhausted \/ c.exhausted], x + 1, y)
                : c \in ColorOutcomes(o.grid, x, y)}

\* Rows y, y + 1, ... below filled_rows filled from the outcome o.
RECURSIVE FillRowsFrom(_, _, _)
FillRowsFrom(o, y, filled_rows) ==
    IF y >= filled_rows THEN {o}
    ELSE UNION {FillRowsFrom(r, y + 1, filled_rows) : r \in FillRowFrom(o, 0, y)}

\* fill_test_pattern: the set of outcomes, each the grid it leaves and
\* whether some cell's retries were exhausted.
FillTestPattern(g) ==
    FillRowsFrom([grid |-> g, exhausted |-> FALSE], 0, g.height \div 2)

\* A plausible slip: the rows are copied from the bottom up, so that row 0
\* ends in every row.
ShiftRowsUpAscending(g) ==
    [g EXCEPT !.cells = [i \in DOMAIN g.cells |-> g.cells[i % g.width]]]

\* push_bottom_row, the rows shifted up by one; row 0 still holds its old cells.
ShiftRowsUp(g) ==
    [g EXCEPT !.cells = [i \in DOMAIN g.cells |->
                            IF i >= g.width THEN g.cells[i - g.width] ELSE g.cells[i]]]

\* push_bottom_row: the set of outcomes, each the grid it leaves and whether
\* some cell's retries were exhausted.
PushBottomRow(g) ==
    IF g.height = 0 \/ g.width = 0 THEN {[grid |-> g, exhausted |-> FALSE]}
    ELSE IF TopRowOccupied(g) THEN {[grid |-> g, exhausted |-> FALSE]}
    ELSE FillRowFrom([grid |-> ShiftRowsUp(g), exhausted |-> FALSE], 0, 0)

HasAdjacentMark(g, i, marks) == \E n \in Neighbors(g, i) : marks[n]

\* A plausible slip: only the garbage cells that touch a mark are cracked, not
\* the rest of their component.
CrackAdjacentGarbageCellOnly(g, marks) ==
    LET changed == {i \in GarbageCells(g) :
                       HasAdjacentMark(g, i, marks) /\ g.cells[i] = Garbage(FALSE)}
    IN  [grid |-> [g EXCEPT !.cells = [i \in DOMAIN g.cells |->
                        IF i \in changed THEN Garbage(TRUE) ELSE g.cells[i]]],
         cracked |-> Cardinality(changed)]

\* crack_adjacent_garbage; returns the grid and the count it returns.
CrackAdjacentGarbage(g, marks) ==
    LET comps == GarbageComponents(g)
        adjacent == {k \in 1..Len(comps) :
                        \E i \in comps[k] : HasAdjacentMark(g, i, marks)}
        changed == {i \in UNION {comps[k] : k \in adjacent} :
                       g.cells[i] = Garbage(FALSE)}
    IN  [grid |-> [g EXCEPT !.cells = [i \in DOMAIN g.cells |->
                        IF i \in changed THEN Garbage(TRUE) ELSE g.cells[i]]],
         cracked |-> Cardinality(changed)]

\* convert_cracked_garbage from cell index i on (y outer, x inner), from the
\* outcome o (a grid and whether a retry loop was exhausted so far).
RECURSIVE ConvertFrom(_, _)
ConvertFrom(o, i) ==
    IF i >= o.grid.width * o.grid.height THEN {o}
    ELSE IF o.grid.cells[i] = Garbage(TRUE)
    THEN UNION {ConvertFrom([grid |-> Set(o.grid, XOf(o.grid, i), YOf(o.grid, i),
                                          Normal(c.color)),
                             exhausted |-> o.exhausted \/ c.exhausted], i + 1)
                : c \in ColorOutcomes(o.grid, XOf(o.grid, i), YOf(o.grid, i))}
    ELSE ConvertFrom(o, i + 1)

\* A plausible slip: the conversion stops after the first cracked cell.
ConvertFirstCrackedOnly(g) ==
    LET cracked == {i \in DOMAIN g.cells : g.cells[i] = Garbage(TRUE)}
    IN  IF cracked = {} THEN {[grid |-> g, converted |-> 0, exhausted |-> FALSE]}
        ELSE LET i == CHOOSE j \in cracked : \A k \in cracked : j <= k
             IN  {[grid |-> Set(g, XOf(g, i), YOf(g, i), Normal(c.color)),
                   converted |-> 1,
                   exhausted |-> c.exhausted]
                  : c \in ColorOutcomes(g, XOf(g, i), YOf(g, i))}

\* A plausible slip: the chain ends without the conversion.
ConvertNothing(g) == {[grid |-> g, converted |-> 0, exhausted |-> FALSE]}

\* convert_cracked_garbage: the set of outcomes, each the grid it leaves, the
\* count it returns and whether some cell's retries were exhausted.
ConvertCrackedGarbage(g) ==
    {[grid |-> r.grid,
      converted |-> Cardinality({i \in DOMAIN g.cells : g.cells[i] = Garbage(TRUE)}),
      exhausted |-> r.exhausted]
     : r \in ConvertFrom([grid |-> g, exhausted |-> FALSE], 0)}

CursorNew(x, y) == [x |-> x, y |-> y]

Clamp(v, lo, hi) == IF v < lo THEN lo ELSE IF v > hi THEN hi ELSE v

\* A plausible slip: x is clamped to the last column instead of the one before it.
MoveByToLastColumn(cursor, dx, dy, width, height) ==
    IF width < 2 \/ height = 0 THEN [cursor |-> cursor, ret |-> FALSE]
    ELSE
        LET max_x == width - 1
            max_y == height - 1
            nx == Clamp(cursor.x + dx, 0, max_x)
            ny == Clamp(cursor.y + dy, 0, max_y)
        IN  [cursor |-> CursorNew(nx, ny), ret |-> nx # cursor.x \/ ny # cursor.y]

\* Cursor::move_by; returns the cursor and the value returned.
MoveBy(cursor, dx, dy, width, height) ==
    IF width < 2 \/ height = 0 THEN [cursor |-> cursor, ret |-> FALSE]
    ELSE
        LET max_x == width - 2
            max_y == height - 1
            nx == Clamp(cursor.x + dx, 0, max_x)
            ny == Clamp(cursor.y + dy, 0, max_y)
        IN  [cursor |-> CursorNew(nx, ny), ret |-> nx # cursor.x \/ ny # cursor.y]

(***************************************************************************)
(* main.rs: PlayerState and the per-player steps.  At this level the Grid  *)
(* is the environment of the orchestration: what a step reads from the     *)
(* board (did a block move, are there matches, the ClearStats of a clear   *)
(* pass, did the insertion succeed) and whether a timer just finished are  *)
(* parameters of the operators, chosen by the actions.                     *)
(***************************************************************************)
GARBAGE_CHAIN_BONUS == 2
GARBAGE_CHAIN_CAP == 24

SaturatingSub(a, b) == IF a < b THEN 0 ELSE a - b

\* u32::saturating_add.  The saturation point 2^32 - 1 is not a TLC integer; the
\* counters it is applied to are kept at or below MaxIncoming and
\* MaxGameIncoming by the guards, where
\* saturating_add is the sum.
SaturatingAdd(a, b) == a + b

Min(a, b) == IF a < b THEN a ELSE b

PlayerId == {"P1", "P2"}

Opponent(p) == IF p = "P1" THEN "P2" ELSE "P1"

\* PlayerState::new, and what reset_player leaves (the same values).
PlayerStateNew ==
    [pending_clear    |-> FALSE,
     settled          |-> TRUE,
     rise_paused      |-> FALSE,
     chain_active     |-> FALSE,
     chain_index      |-> 0,
     chain_ended      |-> FALSE,
     garbage_outgoing |-> 0,
     garbage_incoming |-> 0]

ResetPlayer(player) ==
    [player EXCEPT !.pending_clear = FALSE,
                   !.settled = TRUE,
                   !.rise_paused = FALSE,
                   !.chain_active = FALSE,
                   !.chain_index = 0,
                   !.chain_ended = FALSE,
                   !.garbage_outgoing = 0,
                   !.garbage_incoming = 0]

\* A plausible slip: the contribution is added without looking at the room left.
AddGarbageForClearUncapped(player, cleared, groups) ==
    LET combo_units == SaturatingSub(cleared, 3)
        multi_units == SaturatingSub(groups, 1)
        chain_units == IF player.chain_index > 1
                       THEN GARBAGE_CHAIN_BONUS * (player.chain_index - 1)
                       ELSE 0
        total == combo_units + multi_units + chain_units
    IN  IF cleared < 4 /\ player.chain_index < 2 THEN player
        ELSE IF total = 0 THEN player
        ELSE [player EXCEPT !.garbage_outgoing = @ + total]

\* A plausible slip: the chain bonus counts the first clear of a chain too.
AddGarbageForClearBonusFromOne(player, cleared, groups) ==
    LET combo_units == SaturatingSub(cleared, 3)
        multi_units == SaturatingSub(groups, 1)
        chain_units == IF player.chain_index > 0
                       THEN GARBAGE_CHAIN_BONUS * player.chain_index
                       ELSE 0
        total == combo_units + multi_units + chain_units
        remaining == SaturatingSub(GARBAGE_CHAIN_CAP, player.garbage_outgoing)
    IN  IF cleared < 4 /\ player.chain_index < 2 THEN player
        ELSE IF total = 0 THEN player
        ELSE IF remaining = 0 THEN player
        ELSE [player EXCEPT !.garbage_outgoing = @ + Min(total, remaining)]

AddGarbageForClear(player, cleared, groups) ==
    LET combo_units == SaturatingSub(cleared, 3)
        multi_units == SaturatingSub(groups, 1)
        chain_units == IF player.chain_index > 1
                       THEN GARBAGE_CHAIN_BONUS * (player.chain_index - 1)
                       ELSE 0
        total == combo_units + multi_units + chain_units
        remaining == SaturatingSub(GARBAGE_CHAIN_CAP, player.garbage_outgoing)
    IN  IF cleared < 4 /\ player.chain_index < 2 THEN player
        ELSE IF total = 0 THEN player
        ELSE IF remaining = 0 THEN player
        ELSE [player EXCEPT !.garbage_outgoing = @ + Min(total, remaining)]

\* try_swap; swapped: swap_in_bounds returned true, has_matches: the board then has matches.
TrySwap(player, swapped, has_matches) ==
    IF swapped /\ has_matches
    THEN [player EXCEPT !.pending_clear = TRUE]
    ELSE player

\* A plausible slip: the end of a chain leaves chain_index as it was.
ProcessPlayerGravityKeepsIndex(player, fired, moved, has_matches, conv_match) ==
    IF ~fired THEN player
    ELSE IF moved THEN [player EXCEPT !.settled = FALSE, !.pending_clear = FALSE]
    ELSE
        LET p1 == [player EXCEPT !.settled = TRUE]
            p2 == IF ~p1.pending_clear /\ has_matches
                  THEN [p1 EXCEPT !.pending_clear = TRUE]
                  ELSE p1
        IN  IF p2.chain_active /\ ~p2.pending_clear /\ ~has_matches
            THEN [p2 EXCEPT !.chain_active = FALSE,
                            !.chain_ended = TRUE,
                            !.pending_clear = IF conv_match THEN TRUE ELSE @]
            ELSE p2

\* process_player_gravity; fired: gravity_timer just finished, moved: the result
\* of apply_gravity_step, has_matches: has_matches() on the unmoved board,
\* conv_match: convert_cracked_garbage converted a cell and the board then has matches.
ProcessPlayerGravity(player, fired, moved, has_matches, conv_match) ==
    IF ~fired THEN player
    ELSE IF moved THEN [player EXCEPT !.settled = FALSE, !.pending_clear = FALSE]
    ELSE
        LET p1 == [player EXCEPT !.settled = TRUE]
            p2 == IF ~p1.pending_clear /\ has_matches
                  THEN [p1 EXCEPT !.pending_clear = TRUE]
                  ELSE p1
        IN  IF p2.chain_active /\ ~p2.pending_clear /\ ~has_matches
            THEN [p2 EXCEPT !.chain_active = FALSE,
                            !.chain_index = 0,
                            !.chain_ended = TRUE,
                            !.pending_clear = IF conv_match THEN TRUE ELSE @]
            ELSE p2

\* process_clear_delay; fired: clear_timer just finished, stats: the ClearStats
\* of clear_matches_once_with_stats (cleared, groups).
ProcessClearDelay(player, fired, stats) ==
    IF ~player.pending_clear \/ ~player.settled THEN player
    ELSE IF ~fired THEN player
    ELSE
        LET p1 == IF stats.cleared > 0
                  THEN LET a == [player EXCEPT !.rise_paused = TRUE]
                           b == IF ~a.chain_active
                                THEN [a EXCEPT !.chain_active = TRUE, !.chain_index = 1]
                                ELSE [a EXCEPT !.chain_index = @ + 1]
                       IN  AddGarbageForClear(b, stats.cleared, stats.groups)
                  ELSE player
        IN  [p1 EXCEPT !.pending_clear = FALSE]

\* rise_player; fired: rise_timer just finished, falling: has_falling_garbage(),
\* top: top_row_occupied(), has_matches: has_matches() after push_bottom_row.
\* Returns the player and whether the player lost.
RisePlayer(player, fired, falling, top, has_matches) ==
    IF ~fired THEN [player |-> player, over |-> FALSE]
    ELSE IF player.rise_paused THEN [player |-> player, over |-> FALSE]
    ELSE IF ~player.settled \/ falling THEN [player |-> player, over |-> FALSE]
    ELSE IF top THEN [player |-> player, over |-> TRUE]
    ELSE [player |-> IF has_matches THEN [player EXCEPT !.pending_clear = TRUE] ELSE player,
          over |-> FALSE]

\* tick_rise_pause; fired: rise_pause_timer just finished.
TickRisePause(player, fired) ==
    IF player.rise_paused /\ fired
    THEN [player EXCEPT !.rise_paused = FALSE]
    ELSE player

\* apply_incoming_garbage; inserted: the result of insert_garbage_rows_from_top.
ApplyIncomingGarbage(player, inserted) ==
    IF player.garbage_incoming = 0 THEN player
    ELSE IF player.pending_clear \/ ~player.settled \/ player.rise_paused THEN player
    ELSE
        LET units == player.garbage_incoming
            p0 == [player EXCEPT !.garbage_incoming = 0]
        IN  IF ~inserted
            THEN [p0 EXCEPT !.garbage_incoming = SaturatingAdd(@, units)]
            ELSE [p0 EXCEPT !.settled = FALSE]

\* A plausible slip: the outgoing garbage is handed over but not reset.
TransferGarbageKeepOutgoing(ps, p) ==
    IF ps[p].chain_ended
    THEN LET moved == IF ps[p].garbage_outgoing > 0
                      THEN [ps EXCEPT ![Opponent(p)].garbage_incoming =
                                          SaturatingAdd(@, ps[p].garbage_outgoing)]
                      ELSE ps
         IN  [moved EXCEPT ![p].chain_ended = FALSE]
    ELSE ps

\* resolve_garbage, the transfer of player p's finished chain.
TransferGarbage(ps, p) ==
    IF ps[p].chain_ended
    THEN LET moved == IF ps[p].garbage_outgoing > 0
                      THEN [ps EXCEPT ![Opponent(p)].garbage_incoming =
                                          SaturatingAdd(@, ps[p].garbage_outgoing),
                                      ![p].garbage_outgoing = 0]
                      ELSE ps
         IN  [moved EXCEPT ![p].chain_ended = FALSE]
    ELSE ps

\* A plausible slip: the smaller amount is taken from player 1 only.
CancelGarbageOneSide(ps) ==
    LET cancel == Min(ps["P1"].garbage_incoming, ps["P2"].garbage_incoming)
    IN  IF cancel > 0
        THEN [ps EXCEPT !["P1"].garbage_incoming = @ - cancel]
        ELSE ps

\* resolve_garbage, the mutual cancellation.
CancelGarbage(ps) ==
    LET cancel == Min(ps["P1"].garbage_incoming, ps["P2"].garbage_incoming)
    IN  IF cancel > 0
        THEN [ps EXCEPT !["P1"].garbage_incoming = @ - cancel,
                        !["P2"].garbage_incoming = @ - cancel]
        ELSE ps

\* resolve_garbage; ins1, ins2: the results of insert_garbage_rows_from_top on
\* the two boards.  Returns the players after the transfers, after the
\* cancellation and at the end.
ResolveGarbage(ps, m, ins1, ins2) ==
    IF m.active \/ m.mode # "TwoPlayer"
    THEN [ran |-> FALSE, transferred |-> ps, cancelled |-> ps, players |-> ps]
    ELSE
        LET a == TransferGarbage(TransferGarbage(ps, "P1"), "P2")
            b == CancelGarbage(a)
            c == [b EXCEPT !["P1"] = ApplyIncomingGarbage(@, ins1)]
            d == [c EXCEPT !["P2"] = ApplyIncomingGarbage(@, ins2)]
        IN  [ran |-> TRUE, transferred |-> a, cancelled |-> b, players |-> d]

(***************************************************************************)
(* main.rs: the per-player steps on a concrete board.  Here a PlayerState  *)
(* carries its Grid, its Cursor and its four repeating Timers; a Timer is  *)
(* its elapsed time in ticks, and a step receives the frame's delta.       *)
(* score, elapsed / rise_level (the speed-up of the rise) and the input    *)
(* repeat fields are left out: no step modelled here reads them.           *)
(***************************************************************************)
\* A plausible slip: the timer is read without being advanced.
TimerTickUnticked(elapsed, delta, duration) ==
    [elapsed |-> elapsed, just_finished |-> elapsed >= duration]

\* Timer::tick of a repeating timer: the elapsed time wraps at the duration.
TimerTick(elapsed, delta, duration) ==
    [elapsed |-> (elapsed + delta) % duration,
     just_finished |-> elapsed + delta >= duration]

\* Timer::reset
TimerReset == 0

\* PlayerState::new with a grid of the given size.
BoardPlayerNew(w, h) ==
    [grid             |-> GridNew(w, h),
     cursor           |-> CursorNew(0, 0),
     pending_clear    |-> FALSE,
     settled          |-> TRUE,
     clear_timer      |-> TimerReset,
     gravity_timer    |-> TimerReset,
     rise_timer       |-> TimerReset,
     rise_pause_timer |-> TimerReset,
     rise_paused      |-> FALSE,
     chain_active     |-> FALSE,
     chain_index      |-> 0,
     chain_ended      |-> FALSE,
     garbage_outgoing |-> 0,
     garbage_incoming |-> 0]

\* reset_player: the set of outcomes (the colours are random), each the player
\* and whether a retry loop of fill_test_pattern was exhausted.
BoardResetPlayer(player) ==
    {[player |-> [BoardPlayerNew(player.grid.width, player.grid.height)
                     EXCEPT !.grid = o.grid],
      exhausted |-> o.exhausted]
     : o \in FillTestPattern(GridNew(player.grid.width, player.grid.height))}

\* move_cursor
BoardMoveCursor(player, dx, dy) ==
    [player EXCEPT !.cursor =
        MoveBy(player.cursor, dx, dy, player.grid.width, player.grid.height).cursor]

\* try_swap
BoardTrySwap(player) ==
    LET r == SwapInBounds(player.grid, RightOf(player.cursor.x, player.cursor.y))
        p == [player EXCEPT !.grid = r.grid]
    IN  IF r.ret /\ HasMatches(r.grid)
        THEN [p EXCEPT !.pending_clear = TRUE, !.clear_timer = TimerReset]
        ELSE p

\* process_player_gravity: the set of outcomes (the colours of converted
\* garbage are random), each the player, whether the chain ended and whether
\* a retry loop of convert_cracked_garbage was exhausted.
BoardProcessPlayerGravity(player, delta) ==
    LET t == TimerTick(player.gravity_timer, delta, GravityTicks)
        p0 == [player EXCEPT !.gravity_timer = t.elapsed]
        Plain(p) == {[player |-> p, ended |-> FALSE, exhausted |-> FALSE]}
    IN  IF ~t.just_finished THEN Plain(p0)
        ELSE
            LET step == ApplyGravityStep(p0.grid)
            IN  IF step.moved
                THEN Plain([p0 EXCEPT !.grid = step.grid,
                                      !.settled = FALSE,
                                      !.pending_clear = FALSE])
                ELSE
                    LET has_matches == HasMatches(p0.grid)
                        p1 == [p0 EXCEPT !.settled = TRUE]
                        p2 == IF ~p1.pending_clear /\ has_matches
                              THEN [p1 EXCEPT !.pending_clear = TRUE,
                                              !.clear_timer = TimerReset]
                              ELSE p1
                    IN  IF p2.chain_active /\ ~p2.pending_clear /\ ~has_matches
                        THEN {LET p3 == [p2 EXCEPT !.chain_active = FALSE,
                                                   !.chain_index = 0,
                                                   !.chain_ended = TRUE,
                                                   !.grid = c.grid]
                                  p4 == IF c.converted > 0 /\ HasMatches(c.grid)
                                        THEN [p3 EXCEPT !.pending_clear = TRUE,
                                                        !.clear_timer = TimerReset]
                                        ELSE p3
                              IN  [player |-> p4, ended |-> TRUE,
                                   exhausted |-> c.exhausted]
                              : c \in ConvertCrackedGarbage(p2.grid)}
                        ELSE Plain(p2)

\* The chain restarting at 1 with every clear that removed cells.
ChainAfterClearRestart(player) ==
    [player EXCEPT !.chain_active = TRUE, !.chain_index = 1]

\* process_clear_delay, the chain of a clear pass that removed cells: started
\* at 1 if the chain was inactive, one further otherwise.
ChainAfterClear(player) ==
    IF ~player.chain_active
    THEN [player EXCEPT !.chain_active = TRUE, !.chain_index = 1]
    ELSE [player EXCEPT !.chain_index = @ + 1]

\* A plausible slip: the clear delay runs whether or not the board is settled.
BoardProcessClearDelayUnsettled(player, delta) ==
    IF ~player.pending_clear
    THEN [player |-> player, pass |-> FALSE, cleared |-> 0, groups |-> 0]
    ELSE
        LET t == TimerTick(player.clear_timer, delta, ClearTicks)
            p0 == [player EXCEPT !.clear_timer = t.elapsed]
        IN  IF ~t.just_finished
            THEN [player |-> p0, pass |-> FALSE, cleared |-> 0, groups |-> 0]
            ELSE
                LET stats == ClearMatchesOnceWithStats(p0.grid)
                    p1 == [p0 EXCEPT !.grid = stats.grid]
                    p2 == IF stats.cleared > 0
                          THEN LET a == [p1 EXCEPT
                                            !.rise_paused = TRUE,
                                            !.rise_pause_timer = TimerReset,
                                            !.grid = CrackAdjacentGarbage(stats.grid,
                                                                          stats.marks).grid]
                               IN  AddGarbageForClear(ChainAfterClear(a), stats.cleared,
                                                      stats.groups)
                          ELSE p1
                IN  [player |-> [p2 EXCEPT !.pending_clear = FALSE],
                     pass |-> TRUE, cleared |-> stats.cleared, groups |-> stats.groups]

\* process_clear_delay; returns the player and whether the clear pass
\* (clear_matches_once_with_stats) was executed, with its ClearStats.
BoardProcessClearDelay(player, delta) ==
    IF ~player.pending_clear \/ ~player.settled
    THEN [player |-> player, pass |-> FALSE, cleared |-> 0, groups |-> 0]
    ELSE
        LET t == TimerTick(player.clear_timer, delta, ClearTicks)
            p0 == [player EXCEPT !.clear_timer = t.elapsed]
        IN  IF ~t.just_finished
            THEN [player |-> p0, pass |-> FALSE, cleared |-> 0, groups |-> 0]
            ELSE
                LET stats == ClearMatchesOnceWithStats(p0.grid)
                    p1 == [p0 EXCEPT !.grid = stats.grid]
                    p2 == IF stats.cleared > 0
                          THEN LET a == [p1 EXCEPT
                                            !.rise_paused = TRUE,
                                            !.rise_pause_timer = TimerReset,
                                            !.grid = CrackAdjacentGarbage(stats.grid,
                                                                          stats.marks).grid]
                               IN  AddGarbageForClear(ChainAfterClear(a), stats.cleared,
                                                      stats.groups)
                          ELSE p1
                IN  [player |-> [p2 EXCEPT !.pending_clear = FALSE],
                     pass |-> TRUE, cleared |-> stats.cleared, groups |-> stats.groups]

\* rise_player: the set of outcomes (the colours of the new row are random),
\* each the player, whether the player lost, whether a row was pushed and
\* whether a retry loop of push_bottom_row was exhausted.
BoardRisePlayer(player, delta) ==
    LET t == TimerTick(player.rise_timer, delta, RiseTicks)
        p0 == [player EXCEPT !.rise_timer = t.elapsed]
        idle == {[player |-> p0, over |-> FALSE, pushed |-> FALSE, exhausted |-> FALSE]}
    IN  IF ~t.just_finished THEN idle
        ELSE IF p0.rise_paused THEN idle
        ELSE IF ~p0.settled \/ HasFallingGarbage(p0.grid) THEN idle
        ELSE IF TopRowOccupied(p0.grid)
        THEN {[player |-> p0, over |-> TRUE, pushed |-> FALSE, exhausted |-> FALSE]}
        ELSE {LET p1 == [p0 EXCEPT !.grid = o.grid]
                  p2 == IF p1.cursor.y + 1 < p1.grid.height
                        THEN [p1 EXCEPT !.cursor.y = @ + 1]
                        ELSE p1
                  p3 == IF HasMatches(p2.grid)
                        THEN [p2 EXCEPT !.pending_clear = TRUE,
                                        !.clear_timer = TimerReset]
                        ELSE p2
              IN  [player |-> p3, over |-> FALSE, pushed |-> TRUE,
                   exhausted |-> o.exhausted]
              : o \in PushBottomRow(p0.grid)}

\* A plausible slip: the pause ends with the first tick, whatever the timer.
BoardTickRisePauseOneTick(player, delta) ==
    [player EXCEPT !.rise_paused = FALSE]

\* tick_rise_pause: the timer is ticked only while rise_paused.
BoardTickRisePause(player, delta) ==
    IF player.rise_paused
    THEN LET t == TimerTick(player.rise_pause_timer, delta, RisePauseTicks)
         IN  [player EXCEPT !.rise_pause_timer = t.elapsed,
                            !.rise_paused = IF t.just_finished THEN FALSE ELSE @]
    ELSE player

\* A plausible slip: the run of the partial row takes its end column too.
BuildPartialGarbageRowInclusive(width, blocks, start) ==
    IF blocks >= width THEN [k \in 1..width |-> TRUE]
    ELSE [k \in 1..width |-> k - 1 >= start /\ k - 1 <= start + blocks]

\* build_partial_garbage_row with the start column drawn by the caller; a mask
\* is a sequence, entry x + 1 for column x.
BuildPartialGarbageRow(width, blocks, start) ==
    IF blocks >= width THEN [k \in 1..width |-> TRUE]
    ELSE [k \in 1..width |-> k - 1 >= start /\ k - 1 < start + blocks]

\* build_garbage_rows: the set of row lists it can return (the start column
\* of the partial row is random in 0..=width - blocks).
BuildGarbageRows(width, units) ==
    IF units = 0 \/ width = 0 THEN {<<>>}
    ELSE
        LET full_rows == units \div width
            rem == units % width
            full == [r \in 1..full_rows |-> [k \in 1..width |-> TRUE]]
        IN  IF rem > 0
            THEN {full \o <<BuildPartialGarbageRow(width, rem, start)>>
                  : start \in 0..(width - rem)}
            ELSE {full}

\* A plausible slip: a rise pause does not hold the garbage back.
IncomingHeldNoPause(player) == player.pending_clear \/ ~player.settled

\* apply_incoming_garbage, the second early return: the board is not ready.
IncomingHeld(player) == player.pending_clear \/ ~player.settled \/ player.rise_paused

\* A plausible slip: the units of a failed insertion are dropped.
ReturnUnitsDropped(player, units) == player

\* apply_incoming_garbage, a failed insertion: the units go back to the queue.
ReturnUnits(player, units) ==
    [player EXCEPT !.garbage_incoming = SaturatingAdd(@, units)]

\* apply_incoming_garbage: the set of outcomes, each the player, whether the
\* insertion was attempted and what insert_garbage_rows_from_top returned.
BoardApplyIncomingGarbage(player) ==
    IF player.garbage_incoming = 0
    THEN {[player |-> player, tried |-> FALSE, inserted |-> FALSE]}
    ELSE IF IncomingHeld(player)
    THEN {[player |-> player, tried |-> FALSE, inserted |-> FALSE]}
    ELSE
        LET units == player.garbage_incoming
            p0 == [player EXCEPT !.garbage_incoming = 0]
        IN  {LET r == InsertGarbageRowsFromTop(p0.grid, rows)
             IN  IF ~r.ret
                 THEN [player |-> ReturnUnits([p0 EXCEPT !.grid = r.grid], units),
                       tried |-> TRUE, inserted |-> FALSE]
                 ELSE [player |-> [p0 EXCEPT !.grid = r.grid, !.settled = FALSE],
                       tried |-> TRUE, inserted |-> TRUE]
             : rows \in BuildGarbageRows(p0.grid.width, units)}

\* rise_stack on concrete boards: the set of outcomes (the colours of a new row
\* are random), each the players and the MatchOver it leaves.
BoardRiseStack(ps, m, delta) ==
    IF m.active THEN {[players |-> ps, match |-> m]}
    ELSE
        LET skipped == {[player |-> ps["P2"], over |-> FALSE, pushed |-> FALSE,
                         exhausted |-> FALSE]}
        IN  {[players |-> [P1 |-> r1.player, P2 |-> r2.player],
              match |-> IF r1.over
                        THEN [m EXCEPT !.active = TRUE,
                                       !.winner = IF m.mode = "TwoPlayer"
                                                  THEN "P2" ELSE "None",
                                       !.timer_done = FALSE]
                        ELSE IF r2.over
                        THEN [m EXCEPT !.active = TRUE,
                                       !.winner = "P1",
                                       !.timer_done = FALSE]
                        ELSE m]
             : r1 \in BoardRisePlayer(ps["P1"], delta),
               r2 \in IF m.mode = "TwoPlayer"
                      THEN BoardRisePlayer(ps["P2"], delta)
                      ELSE skipped}

\* A plausible slip: resolve_garbage looks at the mode only, not at the end of
\* the match.
BoardResolveGarbageWhenOver(ps, m) ==
    IF m.mode # "TwoPlayer"
    THEN {[ran |-> FALSE, transferred |-> ps, cancelled |-> ps, players |-> ps,
           applied |-> [p \in PlayerId |-> [tried |-> FALSE, inserted |-> FALSE]]]}
    ELSE
        LET a == TransferGarbage(TransferGarbage(ps, "P1"), "P2")
            b == CancelGarbage(a)
        IN  {[ran |-> TRUE, transferred |-> a, cancelled |-> b,
              players |-> [P1 |-> r1.player, P2 |-> r2.player],
              applied |-> [P1 |-> [tried |-> r1.tried, inserted |-> r1.inserted],
                           P2 |-> [tried |-> r2.tried, inserted |-> r2.inserted]]]
             : r1 \in BoardApplyIncomingGarbage(b["P1"]),
               r2 \in BoardApplyIncomingGarbage(b["P2"])}

\* resolve_garbage on concrete boards: the set of outcomes (the position of a
\* partial garbage row is random), each the players after the transfers, after
\* the cancellation and at the end, and what each application did.
BoardResolveGarbage(ps, m) ==
    IF m.active \/ m.mode # "TwoPlayer"
    THEN {[ran |-> FALSE, transferred |-> ps, cancelled |-> ps, players |-> ps,
           applied |-> [p \in PlayerId |-> [tried |-> FALSE, inserted |-> FALSE]]]}
    ELSE
        LET a == TransferGarbage(TransferGarbage(ps, "P1"), "P2")
            b == CancelGarbage(a)
        IN  {[ran |-> TRUE, transferred |-> a, cancelled |-> b,
              players |-> [P1 |-> r1.player, P2 |-> r2.player],
              applied |-> [P1 |-> [tried |-> r1.tried, inserted |-> r1.inserted],
                           P2 |-> [tried |-> r2.tried, inserted |-> r2.inserted]]]
             : r1 \in BoardApplyIncomingGarbage(b["P1"]),
               r2 \in BoardApplyIncomingGarbage(b["P2"])}

(***************************************************************************)
(* main.rs: GameMode, MatchOver; the state after construction (main).      *)
(***************************************************************************)
MatchNew(mode) == [mode |-> mode, active |-> FALSE, winner |-> "None", timer_done |-> FALSE]

PlayersNew == [p \in PlayerId |-> PlayerStateNew]

(***************************************************************************)
(* Families of boards the grid-level specifications start from.            *)
(***************************************************************************)
Dims(maxCells) == {d \in (0..MaxW) \X (0..MaxH) : d[1] * d[2] <= maxCells}

BoardsOver(values, maxCells) ==
    UNION {[width : {d[1]}, height : {d[2]}, cells : [0..(d[1] * d[2] - 1) -> values]]
           : d \in Dims(maxCells)}

\* One colour is enough where an operation only reads whether a cell is occupied.
OccupancyValues == {None, Normal(BlockColor[1]), Garbage(FALSE), Garbage(TRUE)}

GameIdle == players = PlayersNew /\ match = MatchNew("OnePlayer") /\ frame = NoFrame

(***************************************************************************)
(* SpecSwap: one call of swap_in_bounds on every small board with every    *)
(* command whose coordinates are on the board or one past its edge.        *)
(***************************************************************************)
InitSwap ==
    /\ grid \in BoardsOver(CellValues, SmallCells)
    /\ last = [op |-> "init"]
    /\ GameIdle

SwapInBoundsCall ==
    /\ last.op = "init"
    /\ \E ax, bx \in 0..grid.width, ay, by \in 0..grid.height :
        LET cmd == SwapCmd(ax, ay, bx, by)
            r == SwapInBounds(grid, cmd)
        IN  /\ grid' = r.grid
            /\ last' = [op |-> "swap_in_bounds", pre |-> grid, cmd |-> cmd, ret |-> r.ret]
            /\ UNCHANGED <<players, match, frame>>

SpecSwap == InitSwap /\ [][SwapInBoundsCall]_vars

OutOfRange(g, cmd) ==
    \/ cmd.ax >= g.width
    \/ cmd.bx >= g.width
    \/ cmd.ay >= g.height
    \/ cmd.by >= g.height

\* C1: whenever a coordinate of the command is out of range or one of the two
\* addressed cells holds garbage (cracked or intact), swap_in_bounds returns
\* false and every cell of the grid is as before.
C1_SwapRefused ==
    last.op = "swap_in_bounds" =>
        LET g == last.pre
            cmd == last.cmd
        IN  (\/ OutOfRange(g, cmd)
             \/ g.cells[cmd.ay * g.width + cmd.ax].kind = "Garbage"
             \/ g.cells[cmd.by * g.width + cmd.bx].kind = "Garbage")
            => (last.ret = FALSE /\ grid = g)

\* A refused swap whose second cell is garbage while the first holds a normal block.
C1_Witness ==
    /\ last.op = "swap_in_bounds"
    /\ ~OutOfRange(last.pre, last.cmd)
    /\ last.pre.cells[last.cmd.ay * last.pre.width + last.cmd.ax].kind = "Normal"
    /\ last.pre.cells[last.cmd.by * last.pre.width + last.cmd.bx].kind = "Garbage"
    /\ last.ret = FALSE
    /\ grid = last.pre

(***************************************************************************)
(* SpecInsert: one insert_garbage_rows_from_top on every small board and   *)
(* on the empty GRID_W x GRID_H board, with up to MaxRows masks.           *)
(* A mask has the board's width, or is the all-true mask one shorter or    *)
(* one longer; on boards wider than MaxW only all-true masks are drawn.    *)
(***************************************************************************)
AllTrue(n) == [x \in 1..n |-> TRUE]

MasksFor(g) ==
    {m \in [1..g.width -> BOOLEAN] : g.width <= MaxW \/ m = AllTrue(g.width)}
    \cup {AllTrue(g.width + 1)}
    \cup (IF g.width >= 1 THEN {AllTrue(g.width - 1)} ELSE {})

RowsFor(g) == UNION {[1..n -> MasksFor(g)] : n \in 0..MaxRows}

InitInsert ==
    /\ grid \in BoardsOver(OccupancyValues, SmallCells) \cup {GridNew(GRID_W, GRID_H)}
    /\ last = [op |-> "init"]
    /\ GameIdle

InsertGarbageRowsCall ==
    /\ last.op = "init"
    /\ \E rows \in RowsFor(grid) :
        LET r == InsertGarbageRowsFromTop(grid, rows)
        IN  /\ grid' = r.grid
            /\ last' = [op |-> "insert_garbage_rows_from_top", pre |-> grid,
                        rows |-> rows, ret |-> r.ret]
            /\ UNCHANGED <<players, match, frame>>

SpecInsert == InitInsert /\ [][InsertGarbageRowsCall]_vars

\* Row r of rows (1-based) lands on board row height - Len(rows) + (r - 1).
RowY(g, rows, r) == g.height - Len(rows) + (r - 1)

WidthsOk(g, rows) == \A r \in 1..Len(rows) : Len(rows[r]) = g.width

\* Some cell a mask marks true is occupied (rows fit the board).
TargetOccupied(g, rows) ==
    \E r \in 1..Len(rows), x \in 0..(g.width - 1) :
        rows[r][x + 1] /\ g.cells[RowY(g, rows, r) * g.width + x] # None

\* C2: if there are more rows than the board is tall, or a mask's length is
\* not the board's width, or a cell a mask marks true is occupied, the call
\* returns false and no cell of the grid has changed.
C2_InsertAllOrNothing ==
    last.op = "insert_garbage_rows_from_top" =>
        LET g == last.pre
            rows == last.rows
        IN  (\/ Len(rows) > g.height
             \/ ~WidthsOk(g, rows)
             \/ TargetOccupied(g, rows))
            => (last.ret = FALSE /\ grid = g)

\* A refused insertion of two rows whose first row was entirely free and
\* marked a cell, the second one hitting an occupied cell.
C2_Witness ==
    /\ last.op = "insert_garbage_rows_from_top"
    /\ Len(last.rows) = 2
    /\ Len(last.rows) <= last.pre.height
    /\ WidthsOk(last.pre, last.rows)
    /\ \E x \in 0..(last.pre.width - 1) : last.rows[1][x + 1]
    /\ \A x \in 0..(last.pre.width - 1) :
          last.pre.cells[RowY(last.pre, last.rows, 1) * last.pre.width + x] = None
    /\ \E x \in 0..(last.pre.width - 1) :
          /\ last.rows[2][x + 1]
          /\ last.pre.cells[RowY(last.pre, last.rows, 2) * last.pre.width + x] # None
    /\ last.ret = FALSE
    /\ grid = last.pre

\* C3: when the call succeeds with k = Len(rows) >= 1, rows[i] is written at
\* row height - k + i: every cell marked true is intact garbage, every other
\* cell of the grid is as before; one all-true mask on the empty 6 x 12 board
\* fills exactly the topmost row.
C3_InsertPlacement ==
    (last.op = "insert_garbage_rows_from_top" /\ last.ret /\ Len(last.rows) >= 1) =>
        LET g == last.pre
            rows == last.rows
            k == Len(rows)
        IN  /\ grid.width = g.width /\ grid.height = g.height
            /\ \A y \in 0..(g.height - 1), x \in 0..(g.width - 1) :
                  LET i == y * g.width + x
                  IN  IF y >= g.height - k /\ rows[y - (g.height - k) + 1][x + 1]
                      THEN grid.cells[i] = [kind |-> "Garbage", cracked |-> FALSE]
                      ELSE grid.cells[i] = g.cells[i]
            /\ (g = GridNew(6, 12) /\ rows = <<AllTrue(6)>>) =>
                  \A y \in 0..11, x \in 0..5 :
                      grid.cells[y * 6 + x] =
                          IF y = 11 THEN [kind |-> "Garbage", cracked |-> FALSE] ELSE None

\* The end-to-end case: one all-true mask accepted by the empty 6 x 12 board.
C3_Witness ==
    /\ last.op = "insert_garbage_rows_from_top"
    /\ last.pre = GridNew(6, 12)
    /\ last.rows = <<AllTrue(6)>>
    /\ last.ret
    /\ grid.cells[71] = [kind |-> "Garbage", cracked |-> FALSE]

(***************************************************************************)
(* SpecClear: clear_matches_once_with_stats, called on every board of up   *)
(* to MaxCells cells and again on what it leaves.                          *)
(***************************************************************************)
InitClear ==
    /\ grid \in BoardsOver(CellValues, MaxCells)
    /\ last = [op |-> "init"]
    /\ GameIdle

ClearMatchesCall ==
    LET r == ClearMatchesOnceWithStats(grid)
    IN  /\ grid' = r.grid
        /\ last' = [op |-> "clear_matches_once_with_stats", pre |-> grid,
                    cleared |-> r.cleared, groups |-> r.groups, marks |-> r.marks]
        /\ UNCHANGED <<players, match, frame>>

SpecClear == InitClear /\ [][ClearMatchesCall]_vars

Cell(g, x, y) == g.cells[y * g.width + x]

\* Three normal blocks of one colour side by side in a row, or stacked in a column.
HasRunOfThree(g) ==
    \/ \E y \in 0..(g.height - 1), x \in 0..(g.width - 3) :
          /\ Cell(g, x, y).kind = "Normal"
          /\ Cell(g, x + 1, y) = Cell(g, x, y)
          /\ Cell(g, x + 2, y) = Cell(g, x, y)
    \/ \E x \in 0..(g.width - 1), y \in 0..(g.height - 3) :
          /\ Cell(g, x, y).kind = "Normal"
          /\ Cell(g, x, y + 1) = Cell(g, x, y)
          /\ Cell(g, x, y + 2) = Cell(g, x, y)

\* C4: on a grid without a horizontal or vertical run of three or more normal
\* blocks of one colour, clear_matches_once_with_stats returns cleared = 0 and
\* groups = 0 and leaves every cell unchanged.
C4_NoRunNoClear ==
    (last.op = "clear_matches_once_with_stats" /\ ~HasRunOfThree(last.pre)) =>
        (last.cleared = 0 /\ last.groups = 0 /\ grid = last.pre)

\* A call on a board that has two equal normal blocks side by side, a garbage
\* block, and no run of three.
C4_Witness ==
    /\ last.op = "clear_matches_once_with_stats"
    /\ ~HasRunOfThree(last.pre)
    /\ \E y \in 0..(last.pre.height - 1), x \in 0..(last.pre.width - 2) :
          /\ Cell(last.pre, x, y).kind = "Normal"
          /\ Cell(last.pre, x + 1, y) = Cell(last.pre, x, y)
    /\ \E i \in DOMAIN last.pre.cells : last.pre.cells[i].kind = "Garbage"
    /\ last.cleared = 0
    /\ grid = last.pre

(***************************************************************************)
(* SpecGravity: apply_gravity, the loop that calls apply_gravity_step      *)
(* until it returns false, on every board of up to MaxCells cells; the     *)
(* step is called once more after it returned false.                       *)
(***************************************************************************)
InitGravity ==
    /\ grid \in BoardsOver(CellValues, MaxCells)
    /\ last = [op |-> "init"]
    /\ GameIdle

ApplyGravityStepCall ==
    LET r == ApplyGravityStep(grid)
        before == IF last.op = "init" THEN 0 ELSE last.moves
    IN  /\ grid' = r.grid
        /\ last' = [op |-> "apply_gravity_step", pre |-> grid, moved |-> r.moved,
                    moves |-> before + (IF r.moved THEN 1 ELSE 0)]
        /\ UNCHANGED <<players, match, frame>>

SpecGravity == InitGravity /\ [][ApplyGravityStepCall]_vars

\* Every normal block is in row 0 or has a non-empty cell directly below it.
NormalsRest(g) ==
    \A i \in DOMAIN g.cells :
        g.cells[i].kind = "Normal" => (i < g.width \/ g.cells[i - g.width] # None)

\* The sum, over the blocks of the board, of the row each block is in.
RECURSIVE SumOfRows(_, _)
SumOfRows(g, n) ==
    IF n = 0 THEN 0
    ELSE SumOfRows(g, n - 1)
         + (IF g.cells[n - 1] # None THEN (n - 1) \div g.width ELSE 0)

StepReturnedFalse == last.op = "apply_gravity_step" /\ ~last.moved

\* C5: repeated apply_gravity_step terminates, since every step that returns
\* true lowers the sum of the blocks' rows, which is never negative; on the
\* board a false-returning step leaves, every normal block is in row 0 or has
\* a non-empty cell below it, and a further step returns false and changes
\* nothing.
C5_GravitySettles ==
    /\ [](StepReturnedFalse => NormalsRest(grid))
    /\ [][/\ last'.moved =>
                SumOfRows(grid', grid'.width * grid'.height)
                    < SumOfRows(grid, grid.width * grid.height)
          /\ ~last'.moved => grid' = grid
          /\ StepReturnedFalse => (~last'.moved /\ grid' = grid)]_vars

\* The loop ended after two steps that moved blocks, on a board that holds a
\* normal block and a garbage block above row 0.
C5_Witness ==
    /\ StepReturnedFalse
    /\ last.moves >= 2
    /\ \E i \in DOMAIN grid.cells : i >= grid.width /\ grid.cells[i].kind = "Normal"
    /\ \E i \in DOMAIN grid.cells : i >= grid.width /\ grid.cells[i].kind = "Garbage"

\* The 4-connected component of garbage cells of g that holds cell i.
ComponentOf(g, i) == Flood(g, GarbageCells(g), {i})

\* A component qualifies to fall: no cell of it is in row 0, and the cell below
\* each of its cells is empty or belongs to it.
Qualifies(g, comp) ==
    /\ \A i \in comp : i >= g.width
    /\ \A i \in comp : g.cells[i - g.width] = None \/ (i - g.width) \in comp

\* C6: in one apply_gravity_step every 4-connected garbage component that
\* qualifies to fall moves down exactly one row as a unit, each cell keeping
\* its cracked flag and the cells keeping their adjacency; a component that
\* does not qualify keeps every cell where it was.
C6_GarbageFallsAsUnit ==
    last.op = "apply_gravity_step" =>
        \A s \in GarbageCells(last.pre) :
            LET comp == ComponentOf(last.pre, s)
                w == last.pre.width
                shifted == {i - w : i \in comp}
            IN  IF Qualifies(last.pre, comp)
                THEN /\ \A i \in comp : grid.cells[i - w] = last.pre.cells[i]
                     /\ \A i \in comp \ shifted : grid.cells[i] = None
                     /\ shifted \subseteq GarbageCells(grid)
                     /\ Flood(grid, shifted, {s - w}) = shifted
                ELSE \A i \in comp : grid.cells[i] = last.pre.cells[i]

\* One step in which a component of three cells over two rows and two columns,
\* holding a cracked and an intact cell, fell, and in which another board cell
\* of garbage did not move.
C6_Witness ==
    /\ last.op = "apply_gravity_step"
    /\ \E s \in GarbageCells(last.pre) :
          LET comp == ComponentOf(last.pre, s)
          IN  /\ Qualifies(last.pre, comp)
              /\ Cardinality(comp) >= 3
              /\ Cardinality({i % last.pre.width : i \in comp}) >= 2
              /\ Cardinality({i \div last.pre.width : i \in comp}) >= 2
              /\ \E i, j \in comp : last.pre.cells[i].cracked /\ ~last.pre.cells[j].cracked
              /\ \A i \in comp : grid.cells[i - last.pre.width] = last.pre.cells[i]

\* One step in which a component held up by a block under one of its cells,
\* with an empty cell under another, stayed where it was.
C6_WitnessHeld ==
    /\ last.op = "apply_gravity_step"
    /\ \E s \in GarbageCells(last.pre) :
          LET comp == ComponentOf(last.pre, s)
          IN  /\ ~Qualifies(last.pre, comp)
              /\ \A i \in comp : i >= last.pre.width
              /\ \E i \in comp : last.pre.cells[i - last.pre.width] = None
              /\ \A i \in comp : grid.cells[i] = last.pre.cells[i]

(***************************************************************************)
(* SpecAddGarbage: add_garbage_for_clear at its call site in               *)
(* process_clear_delay, where the chain is active and chain_index >= 1,    *)
(* for every garbage_outgoing up to the cap and every ClearStats of a      *)
(* clear pass that cleared something (at least 3 cells per group).         *)
(***************************************************************************)
InitAddGarbage ==
    /\ grid = GridNew(0, 0)
    /\ frame = NoFrame
    /\ last = [op |-> "init"]
    /\ \E m \in {"OnePlayer", "TwoPlayer"} : match = MatchNew(m)
    /\ \E ci \in 1..MaxChainIndex, out \in 0..GARBAGE_CHAIN_CAP :
          players = [PlayersNew EXCEPT !["P1"] =
                        [@ EXCEPT !.pending_clear = TRUE,
                                  !.rise_paused = TRUE,
                                  !.chain_active = TRUE,
                                  !.chain_index = ci,
                                  !.garbage_outgoing = out]]

AddGarbageForClearCall ==
    \E cleared \in 3..MaxCleared :
        \E groups \in 1..(cleared \div 3) :
            /\ players' = [players EXCEPT !["P1"] = AddGarbageForClear(@, cleared, groups)]
            /\ last' = [op |-> "add_garbage_for_clear", pre |-> players["P1"],
                        cleared |-> cleared, groups |-> groups]
            /\ UNCHANGED <<grid, match, frame>>

SpecAddGarbage == InitAddGarbage /\ [][AddGarbageForClearCall]_vars

Max0(n) == IF n > 0 THEN n ELSE 0

\* What one call added to garbage_outgoing.
Added == players["P1"].garbage_outgoing - last.pre.garbage_outgoing

CallWas(cleared, groups, chain_index) ==
    /\ last.op = "add_garbage_for_clear"
    /\ last.cleared = cleared
    /\ last.groups = groups
    /\ last.pre.chain_index = chain_index
    /\ last.pre.garbage_outgoing = 0

\* C7: one call adds combo_units + multi_units + chain_units, no more than the
\* room left under the cap, if cleared >= 4 or chain_index >= 2, and nothing
\* otherwise, where combo_units = max(0, cleared - 3), multi_units =
\* max(0, groups - 1), chain_units = 2 * (chain_index - 1) above chain 1 and 0
\* at it; from garbage_outgoing 0, (4 cells, 1 group, chain 1) adds 1,
\* (6, 2, chain 1) adds 4, (3, 1, chain 3) adds 4 and (3, 1, chain 1) adds 0.
C7_GarbageFormula ==
    /\ last.op = "add_garbage_for_clear" =>
          LET ci == last.pre.chain_index
              combo_units == Max0(last.cleared - 3)
              multi_units == Max0(last.groups - 1)
              chain_units == IF ci > 1 THEN 2 * (ci - 1) ELSE 0
              sum == combo_units + multi_units + chain_units
              room == 24 - last.pre.garbage_outgoing
          IN  /\ Added = IF last.cleared >= 4 \/ ci >= 2
                         THEN (IF sum <= room THEN sum ELSE room)
                         ELSE 0
              /\ players["P1"] = [last.pre EXCEPT !.garbage_outgoing = @ + Added]
    /\ CallWas(4, 1, 1) => Added = 1
    /\ CallWas(6, 2, 1) => Added = 4
    /\ CallWas(3, 1, 3) => Added = 4
    /\ CallWas(3, 1, 1) => Added = 0

\* The clear of 3 cells in 1 group at chain 3, from garbage_outgoing 0, added 4.
C7_Witness == CallWas(3, 1, 3) /\ Added = 4

(***************************************************************************)
(* SpecResolve: one run of resolve_garbage from the states it can start    *)
(* in.  resolve_garbage is the only writer of garbage_incoming besides     *)
(* reset_player and ends with the cancellation, so at most one player has  *)
(* incoming garbage when it starts; in one-player mode nothing writes      *)
(* player 2 or any garbage_incoming.                                       *)
(***************************************************************************)
ResolveFlags ==
    [pending_clear : BOOLEAN, settled : BOOLEAN, rise_paused : BOOLEAN,
     chain_ended : BOOLEAN, garbage_outgoing : 0..MaxOutgoing]

ResolvePlayer(f, inc) ==
    [PlayerStateNew EXCEPT !.pending_clear = f.pending_clear,
                           !.settled = f.settled,
                           !.rise_paused = f.rise_paused,
                           !.chain_ended = f.chain_ended,
                           !.garbage_outgoing = f.garbage_outgoing,
                           !.garbage_incoming = inc]

InitResolve ==
    /\ grid = GridNew(0, 0)
    /\ frame = NoFrame
    /\ last = [op |-> "init"]
    /\ \/ /\ match \in {MatchNew("TwoPlayer"),
                        [MatchNew("TwoPlayer") EXCEPT !.active = TRUE, !.winner = "P1"]}
          /\ \E f1, f2 \in ResolveFlags :
                \E i1, i2 \in 0..(MaxIncoming - MaxOutgoing) :
                    /\ i1 = 0 \/ i2 = 0
                    /\ players = [P1 |-> ResolvePlayer(f1, i1), P2 |-> ResolvePlayer(f2, i2)]
       \/ /\ match = MatchNew("OnePlayer")
          /\ \E f1 \in ResolveFlags :
                players = [P1 |-> ResolvePlayer(f1, 0), P2 |-> PlayerStateNew]

ResolveGarbageSystem ==
    /\ last.op = "init"
    /\ \E ins1, ins2 \in BOOLEAN :
          LET r == ResolveGarbage(players, match, ins1, ins2)
          IN  /\ players' = r.players
              /\ last' = [op |-> "resolve_garbage", pre |-> players, ran |-> r.ran,
                          transferred |-> r.transferred, cancelled |-> r.cancelled]
    /\ UNCHANGED <<grid, match, frame>>

SpecResolve == InitResolve /\ [][ResolveGarbageSystem]_vars

\* C9: the cancellation subtracts c = min of the two garbage_incoming, as they
\* are after the transfers, from both players before either player's garbage
\* is applied: after it at most one player has incoming garbage, each has c
\* less, the difference is the same, and 5 and 3 become 2 and 0.
C9_Cancellation ==
    (last.op = "resolve_garbage" /\ last.ran) =>
        LET i1 == last.transferred["P1"].garbage_incoming
            i2 == last.transferred["P2"].garbage_incoming
            j1 == last.cancelled["P1"].garbage_incoming
            j2 == last.cancelled["P2"].garbage_incoming
            c == IF i1 < i2 THEN i1 ELSE i2
        IN  /\ j1 = i1 - c /\ j2 = i2 - c
            /\ j1 = 0 \/ j2 = 0
            /\ j1 - j2 = i1 - i2
            /\ (i1 = 5 /\ i2 = 3) => (j1 = 2 /\ j2 = 0)
            /\ last.cancelled = [last.transferred EXCEPT !["P1"].garbage_incoming = j1,
                                                         !["P2"].garbage_incoming = j2]
            /\ \A p \in PlayerId :
                  players[p].garbage_incoming \in {0, last.cancelled[p].garbage_incoming}

\* Incoming 5 and 3 met in the cancellation and became 2 and 0.
C9_Witness ==
    /\ last.op = "resolve_garbage" /\ last.ran
    /\ last.transferred["P1"].garbage_incoming = 5
    /\ last.transferred["P2"].garbage_incoming = 3
    /\ last.cancelled["P1"].garbage_incoming = 2
    /\ last.cancelled["P2"].garbage_incoming = 0

(***************************************************************************)
(* Spec: the game of main.rs from the entry into AppState::Game, in either *)
(* mode.  One action per system of the Update schedule that writes Players *)
(* or MatchOver; main() orders only resolve_garbage after                  *)
(* update_clear_delay, so the systems interleave freely.  What a system    *)
(* reads from a board or a timer is chosen by its action.                  *)
(***************************************************************************)
Modes == {"OnePlayer", "TwoPlayer"}

\* The players a system processes: player 2 only in two-player mode.
Processed(p) == p = "P1" \/ match.mode = "TwoPlayer"

\* The ClearStats drawn for a clear pass: nothing cleared, and one large clear.
ClearStatsDrawn ==
    {[cleared |-> 0, groups |-> 0], [cleared |-> MaxBigClear, groups |-> 1]}

Init ==
    /\ grid = GridNew(0, 0)
    /\ frame = NoFrame
    /\ last = [op |-> "init"]
    /\ players = [p \in PlayerId |-> ResetPlayer(PlayerStateNew)]
    /\ \E m \in Modes : match = MatchNew(m)

\* What try_swap reads: the result of swap_in_bounds and, after a swap, has_matches.
SwapReads ==
    {[swapped |-> FALSE, has_matches |-> FALSE],
     [swapped |-> TRUE, has_matches |-> FALSE],
     [swapped |-> TRUE, has_matches |-> TRUE]}

\* What process_player_gravity reads: the timer, then apply_gravity_step, then
\* has_matches on a board that did not move, then the conversion at a chain's end.
GravityReads ==
    {[fired |-> FALSE, moved |-> FALSE, has_matches |-> FALSE, conv_match |-> FALSE],
     [fired |-> TRUE, moved |-> TRUE, has_matches |-> FALSE, conv_match |-> FALSE],
     [fired |-> TRUE, moved |-> FALSE, has_matches |-> TRUE, conv_match |-> FALSE],
     [fired |-> TRUE, moved |-> FALSE, has_matches |-> FALSE, conv_match |-> FALSE],
     [fired |-> TRUE, moved |-> FALSE, has_matches |-> FALSE, conv_match |-> TRUE]}

\* What process_clear_delay reads: the timer and the ClearStats of the pass.
ClearReads ==
    {[fired |-> FALSE, stats |-> [cleared |-> 0, groups |-> 0]]}
    \cup {[fired |-> TRUE, stats |-> st] : st \in ClearStatsDrawn}

\* What rise_player reads: the timer, has_falling_garbage, top_row_occupied and,
\* after the push, has_matches.
RiseReads ==
    {[fired |-> FALSE, falling |-> FALSE, top |-> FALSE, has_matches |-> FALSE],
     [fired |-> TRUE, falling |-> TRUE, top |-> FALSE, has_matches |-> FALSE],
     [fired |-> TRUE, falling |-> FALSE, top |-> TRUE, has_matches |-> FALSE],
     [fired |-> TRUE, falling |-> FALSE, top |-> FALSE, has_matches |-> FALSE],
     [fired |-> TRUE, falling |-> FALSE, top |-> FALSE, has_matches |-> TRUE]}

\* handle_input: each processed player may press swap.
HandleInput ==
    /\ \E rd \in [PlayerId -> SwapReads] :
          players' = IF match.active THEN players
                     ELSE [p \in PlayerId |->
                             IF Processed(p)
                             THEN TrySwap(players[p], rd[p].swapped, rd[p].has_matches)
                             ELSE players[p]]
    /\ last' = [op |-> "system"]
    /\ UNCHANGED <<grid, match, frame>>

ApplyGravitySystem ==
    /\ \E rd \in [PlayerId -> GravityReads] :
          players' = IF match.active THEN players
                     ELSE [p \in PlayerId |->
                             IF Processed(p)
                             THEN ProcessPlayerGravity(players[p], rd[p].fired, rd[p].moved,
                                                       rd[p].has_matches, rd[p].conv_match)
                             ELSE players[p]]
    /\ last' = [op |-> "system"]
    /\ UNCHANGED <<grid, match, frame>>

\* update_clear_delay; a pass that clears something raises chain_index, which
\* the guard keeps at or below MaxGameChain.  last.stats: the ClearStats of the
\* pass each player executed, zero where none was executed.
UpdateClearDelay ==
    /\ \E rd \in [PlayerId -> ClearReads] :
          /\ \A p \in PlayerId :
                (rd[p].fired /\ rd[p].stats.cleared > 0)
                    => players[p].chain_index < MaxGameChain
          /\ players' = IF match.active THEN players
                        ELSE [p \in PlayerId |->
                                IF Processed(p)
                                THEN ProcessClearDelay(players[p], rd[p].fired, rd[p].stats)
                                ELSE players[p]]
          /\ last' = [op |-> "update_clear_delay",
                      stats |-> [p \in PlayerId |->
                                    IF /\ ~match.active /\ Processed(p)
                                       /\ players[p].pending_clear /\ players[p].settled
                                       /\ rd[p].fired
                                    THEN rd[p].stats
                                    ELSE [cleared |-> 0, groups |-> 0]]]
    /\ UNCHANGED <<grid, match, frame>>

\* resolve_garbage; the guard keeps garbage_incoming at or below MaxGameIncoming.
ResolveGarbageStep ==
    /\ \E ins1, ins2 \in BOOLEAN :
          LET r == ResolveGarbage(players, match, ins1, ins2)
          IN  /\ \A p \in PlayerId : r.transferred[p].garbage_incoming <= MaxGameIncoming
              /\ players' = r.players
              /\ last' = [op |-> "resolve_garbage", pre |-> players, ran |-> r.ran,
                          transferred |-> r.transferred, cancelled |-> r.cancelled]
    /\ UNCHANGED <<grid, match, frame>>

RiseStack ==
    /\ \E rd \in [PlayerId -> RiseReads] :
          IF match.active THEN UNCHANGED <<players, match>>
          ELSE
              LET r == [p \in PlayerId |->
                          IF Processed(p)
                          THEN RisePlayer(players[p], rd[p].fired, rd[p].falling,
                                          rd[p].top, rd[p].has_matches)
                          ELSE [player |-> players[p], over |-> FALSE]]
              IN  /\ players' = [p \in PlayerId |-> r[p].player]
                  /\ match' = IF r["P1"].over
                              THEN [match EXCEPT !.active = TRUE,
                                                 !.winner = IF match.mode = "TwoPlayer"
                                                            THEN "P2" ELSE "None",
                                                 !.timer_done = FALSE]
                              ELSE IF r["P2"].over
                              THEN [match EXCEPT !.active = TRUE,
                                                 !.winner = "P1",
                                                 !.timer_done = FALSE]
                              ELSE match
    /\ last' = [op |-> "system"]
    /\ UNCHANGED <<grid, frame>>

UpdateRisePause ==
    /\ \E fired \in [PlayerId -> BOOLEAN] :
          players' = IF match.active THEN players
                     ELSE [p \in PlayerId |->
                             IF Processed(p) THEN TickRisePause(players[p], fired[p])
                             ELSE players[p]]
    /\ last' = [op |-> "system"]
    /\ UNCHANGED <<grid, match, frame>>

\* update_game_over_timer; reached: the accumulated seconds have reached 1.0.
UpdateGameOverTimer ==
    /\ \E reached \in BOOLEAN :
          match' = IF match.active /\ ~match.timer_done
                   THEN [match EXCEPT !.timer_done = reached]
                   ELSE match
    /\ last' = [op |-> "system"]
    /\ UNCHANGED <<grid, players, frame>>

\* handle_restart; pressed: a restart key or button was just pressed.
HandleRestart ==
    /\ \E pressed \in BOOLEAN :
          IF match.active /\ match.timer_done /\ pressed
          THEN /\ players' = [p \in PlayerId |-> ResetPlayer(players[p])]
               /\ match' = [match EXCEPT !.active = FALSE, !.winner = "None",
                                         !.timer_done = FALSE]
          ELSE UNCHANGED <<players, match>>
    /\ last' = [op |-> "system"]
    /\ UNCHANGED <<grid, frame>>

Next ==
    \/ HandleInput
    \/ ApplyGravitySystem
    \/ UpdateClearDelay
    \/ ResolveGarbageStep
    \/ RiseStack
    \/ UpdateRisePause
    \/ UpdateGameOverTimer
    \/ HandleRestart

Spec == Init /\ [][Next]_vars

\* What a clear pass with ClearStats st contributes at chain index ci.
Contribution(st, ci) ==
    IF st.cleared >= 4 \/ ci >= 2
    THEN Max0(st.cleared - 3) + Max0(st.groups - 1) + (IF ci > 1 THEN 2 * (ci - 1) ELSE 0)
    ELSE 0

\* C8: in every reachable state each player's garbage_outgoing is at most 24;
\* a clear pass adds its contribution or, if that is larger, the room left
\* under 24, and at 24 it leaves garbage_outgoing unchanged.
C8_OutgoingCapped ==
    /\ [](\A p \in PlayerId : players[p].garbage_outgoing <= 24)
    /\ [][last'.op = "update_clear_delay" =>
            \A p \in PlayerId :
                LET o == players[p].garbage_outgoing
                    room == 24 - o
                    c == IF last'.stats[p].cleared > 0
                         THEN Contribution(last'.stats[p], players'[p].chain_index)
                         ELSE 0
                IN  /\ players'[p].garbage_outgoing = o + (IF c > room THEN room ELSE c)
                    /\ o = 24 => players'[p].garbage_outgoing = 24]_vars

\* The second clear pass of a chain, in two-player mode, left player 2 at the
\* cap its first pass had reached by truncation.
C8_Witness ==
    /\ last.op = "update_clear_delay"
    /\ match.mode = "TwoPlayer"
    /\ last.stats["P2"].cleared = MaxBigClear
    /\ players["P2"].chain_index = 2
    /\ players["P2"].garbage_outgoing = 24

\* A resolve step that passed the guard of resolve_garbage.
ResolveRan == last'.op = "resolve_garbage" /\ match.mode = "TwoPlayer" /\ ~match.active

\* The transfers of one resolve step, from the players before it to the
\* players as they are before the cancellation.
TransfersAsClaimed(before, after) ==
    \A p \in PlayerId :
        LET q == Opponent(p)
            sent == IF before[p].chain_ended THEN before[p].garbage_outgoing ELSE 0
        IN  /\ after[q].garbage_incoming = before[q].garbage_incoming + sent
            /\ after[p].garbage_outgoing = before[p].garbage_outgoing - sent
            /\ ~after[p].chain_ended
            /\ before[p].chain_ended => after[p].garbage_outgoing = 0

InitCrack ==
    /\ grid \in BoardsOver(OccupancyValues, MaxCells)
    /\ last = [op |-> "init"]
    /\ GameIdle

CrackAdjacentGarbageCall ==
    /\ last.op = "init"
    /\ \E marks \in [DOMAIN grid.cells -> BOOLEAN] :
          LET r == CrackAdjacentGarbage(grid, marks)
          IN  /\ grid' = r.grid
              /\ last' = [op |-> "crack_adjacent_garbage", pre |-> grid,
                          marks |-> marks, cracked |-> r.cracked]
    /\ UNCHANGED <<players, match, frame>>

SpecCrack == InitCrack /\ [][CrackAdjacentGarbageCall]_vars

\* Cell i of g is a garbage cell whose 4-connected garbage component has a
\* cell with a marked 4-neighbour.
InMarkedComponent(g, marks, i) ==
    /\ IsGarbage(g.cells[i])
    /\ \E j \in ComponentOf(g, i) : \E n \in Neighbors(g, j) : marks[n]

\* C20: crack_adjacent_garbage sets cracked on every intact cell of exactly
\* the garbage components that have a cell 4-adjacent to a marked cell,
\* leaves every other cell as it was (a cracked cell stays cracked), and
\* returns the number of cells it changed from intact to cracked.
C20_CrackByComponent ==
    last.op = "crack_adjacent_garbage" =>
        /\ \A i \in DOMAIN grid.cells :
              grid.cells[i] = IF InMarkedComponent(last.pre, last.marks, i)
                              THEN Garbage(TRUE)
                              ELSE last.pre.cells[i]
        /\ \A i \in DOMAIN grid.cells :
              last.pre.cells[i] = Garbage(TRUE) => grid.cells[i] = Garbage(TRUE)
        /\ last.cracked = Cardinality({i \in DOMAIN grid.cells :
                                          /\ last.pre.cells[i] = Garbage(FALSE)
                                          /\ grid.cells[i] = Garbage(TRUE)})
        /\ grid.width = last.pre.width /\ grid.height = last.pre.height

\* A call that cracked a cell with no marked neighbour of its own, through its
\* component, and left an intact cell of another component intact.
C20_Witness ==
    /\ last.op = "crack_adjacent_garbage"
    /\ last.cracked >= 2
    /\ \E i \in DOMAIN grid.cells :
          /\ last.pre.cells[i] = Garbage(FALSE)
          /\ grid.cells[i] = Garbage(TRUE)
          /\ ~HasAdjacentMark(last.pre, i, last.marks)
    /\ \E j \in DOMAIN grid.cells :
          last.pre.cells[j] = Garbage(FALSE) /\ grid.cells[j] = Garbage(FALSE)
    /\ \E k \in DOMAIN grid.cells : last.pre.cells[k] = Garbage(TRUE)

(***************************************************************************)
(* SpecPlay: a one-player game on a PlayW x PlayH board, frame by frame.   *)
(* Every frame has one Time::delta and each system of the Update schedule  *)
(* runs once in it.  main() orders only resolve_garbage after              *)
(* update_clear_delay, so the order is the scheduler's choice; the runs    *)
(* followed here are those in which every frame runs the systems in the    *)
(* order of their registration.  resolve_garbage returns at once in        *)
(* one-player mode and is left out, as are update_time and P2, which is    *)
(* not processed in this mode.  The game is followed for MaxFrames frames  *)
(* or until it is over: the restart leads back to InitPlay.  The runs      *)
(* followed are those in which no bounded retry loop of the colour draws   *)
(* is exhausted.                                                           *)
(***************************************************************************)
\* The systems that act on the player, in the order main() registers them.
PlaySystems ==
    <<"handle_input", "apply_gravity_system", "rise_stack", "update_clear_delay",
      "update_rise_pause">>

\* A frame: its Time::delta in ticks, how many systems have run in it, and how
\* many frames came before it.
Frames == [delta : 1..MaxDelta, ran : {0}, count : 0..MaxFrames]

\* The system whose turn it is has not run: frame.ran systems have.
Turn(system) == frame.ran < Len(PlaySystems) /\ PlaySystems[frame.ran + 1] = system

Ran == [frame EXCEPT !.ran = @ + 1]

\* The directions select_direction can return, and none.
MoveChoices == {<<0, 0>>, <<-1, 0>>, <<1, 0>>, <<0, 1>>, <<0, -1>>}

RECURSIVE TrySwaps(_, _)
TrySwaps(player, n) == IF n = 0 THEN player ELSE TrySwaps(BoardTrySwap(player), n - 1)

InitPlay ==
    /\ grid = GridNew(0, 0)
    /\ last = [op |-> "init"]
    /\ \E r \in BoardResetPlayer(BoardPlayerNew(PlayW, PlayH)) :
          ~r.exhausted /\ players = [P1 |-> r.player]
    /\ match = MatchNew("OnePlayer")
    /\ frame \in Frames
    /\ frame.count = 0

\* handle_input: the swap of the keyboard, the swap of the gamepad, then at
\* most one cursor move (the repeat timer decides when a held direction moves
\* again; any frame may move).
PlayHandleInput ==
    /\ Turn("handle_input")
    /\ \E swaps \in 0..2, dir \in MoveChoices :
          players' = IF match.active THEN players
                     ELSE [players EXCEPT !["P1"] =
                              LET p == TrySwaps(@, swaps)
                              IN  IF dir = <<0, 0>> THEN p
                                  ELSE BoardMoveCursor(p, dir[1], dir[2])]
    /\ last' = [op |-> "system"]
    /\ frame' = Ran
    /\ UNCHANGED <<grid, match>>

PlayApplyGravity ==
    /\ Turn("apply_gravity_system")
    /\ IF match.active THEN UNCHANGED players
       ELSE \E r \in BoardProcessPlayerGravity(players["P1"], frame.delta) :
               ~r.exhausted /\ players' = [players EXCEPT !["P1"] = r.player]
    /\ last' = [op |-> "system"]
    /\ frame' = Ran
    /\ UNCHANGED <<grid, match>>

\* update_clear_delay; last tells whether the clear pass was executed and
\* how many cells it removed.
PlayUpdateClearDelay ==
    /\ Turn("update_clear_delay")
    /\ LET r == BoardProcessClearDelay(players["P1"], frame.delta)
       IN  IF match.active
           THEN /\ UNCHANGED players
                /\ last' = [op |-> "system"]
           ELSE /\ players' = [players EXCEPT !["P1"] = r.player]
                /\ last' = IF r.pass THEN [op |-> "clear_pass", cleared |-> r.cleared]
                                     ELSE [op |-> "system"]
    /\ frame' = Ran
    /\ UNCHANGED <<grid, match>>

PlayRiseStack ==
    /\ Turn("rise_stack")
    /\ IF match.active THEN UNCHANGED <<players, match>>
       ELSE \E r \in BoardRisePlayer(players["P1"], frame.delta) :
               /\ ~r.exhausted
               /\ players' = [players EXCEPT !["P1"] = r.player]
               /\ match' = IF r.over
                           THEN [match EXCEPT !.active = TRUE,
                                              !.winner = "None",
                                              !.timer_done = FALSE]
                           ELSE match
    /\ last' = [op |-> "system"]
    /\ frame' = Ran
    /\ UNCHANGED grid

PlayUpdateRisePause ==
    /\ Turn("update_rise_pause")
    /\ players' = IF match.active THEN players
                  ELSE [players EXCEPT !["P1"] = BoardTickRisePause(@, frame.delta)]
    /\ last' = [op |-> "system"]
    /\ frame' = Ran
    /\ UNCHANGED <<grid, match>>

\* Every system has run: the next frame begins, with its own delta.
PlayNextFrame ==
    /\ frame.ran = Len(PlaySystems)
    /\ frame.count < MaxFrames
    /\ frame' \in Frames
    /\ frame'.count = frame.count + 1
    /\ last' = [op |-> "system"]
    /\ UNCHANGED <<grid, players, match>>

NextPlay ==
    \/ PlayHandleInput
    \/ PlayApplyGravity
    \/ PlayUpdateClearDelay
    \/ PlayRiseStack
    \/ PlayUpdateRisePause
    \/ PlayNextFrame

SpecPlay == InitPlay /\ [][NextPlay]_vars

\* No block of g is able to fall: no normal block has an empty cell below it
\* and no garbage component qualifies to fall.
AtRest(g) ==
    /\ \A i \in DOMAIN g.cells :
          (IsNormal(g.cells[i]) /\ i >= g.width) => g.cells[i - g.width] # None
    /\ \A i \in GarbageCells(g) : ~Qualifies(g, ComponentOf(g, i))

\* C11: whenever a clear pass executes, no block on that player's board is
\* able to fall, whatever swaps, rises and insertions preceded it.
C11_ClearOnlyAtRest ==
    [][last'.op = "clear_pass" => AtRest(players["P1"].grid)]_vars


(***************************************************************************)
(* SpecClearPass: one call of process_clear_delay on every player state    *)
(* drawn: every board of up to SmallCells cells, the chain inactive or     *)
(* active at 1..MaxChainIndex, the flags the call reads and every phase of *)
(* the clear timer.                                                        *)
(***************************************************************************)
\* chain_active and chain_index as the code keeps them: 0 when inactive, at
\* least 1 when active.
ChainStates ==
    {[active |-> FALSE, index |-> 0]}
        \cup {[active |-> TRUE, index |-> n] : n \in 1..MaxChainIndex}

InitClearPass ==
    /\ grid = GridNew(0, 0)
    /\ frame = NoFrame
    /\ last = [op |-> "init"]
    /\ match = MatchNew("OnePlayer")
    /\ \E g \in BoardsOver(CellValues, SmallCells), c \in ChainStates,
          pending \in BOOLEAN, settled \in BOOLEAN, elapsed \in 0..(ClearTicks - 1) :
          players = [P1 |-> [BoardPlayerNew(g.width, g.height) EXCEPT
                                !.grid = g,
                                !.chain_active = c.active,
                                !.chain_index = c.index,
                                !.pending_clear = pending,
                                !.settled = settled,
                                !.clear_timer = elapsed]]

ProcessClearDelayCall ==
    /\ last.op = "init"
    /\ \E delta \in 1..MaxDelta :
          LET r == BoardProcessClearDelay(players["P1"], delta)
          IN  /\ players' = [players EXCEPT !["P1"] = r.player]
              /\ last' = [op |-> "process_clear_delay", pre |-> players["P1"],
                          delta |-> delta, pass |-> r.pass]
    /\ UNCHANGED <<grid, match, frame>>

SpecClearPass == InitClearPass /\ [][ProcessClearDelayCall]_vars

\* The cells the call emptied.
Removed == {i \in DOMAIN last.pre.grid.cells :
               last.pre.grid.cells[i] # None /\ players["P1"].grid.cells[i] = None}

\* C12: a clear pass that removes at least one cell sets chain_active and
\* chain_index = 1 if the chain was inactive and otherwise adds exactly 1 to
\* chain_index; a clear pass that removes nothing changes neither.
C12_ChainOnClear ==
    (last.op = "process_clear_delay" /\ last.pass) =>
        LET p == players["P1"]
        IN  IF Removed # {}
            THEN /\ p.chain_active
                 /\ p.chain_index = IF last.pre.chain_active
                                    THEN last.pre.chain_index + 1
                                    ELSE 1
            ELSE /\ p.chain_active = last.pre.chain_active
                 /\ p.chain_index = last.pre.chain_index

C12_Witness ==
    /\ last.op = "process_clear_delay"
    /\ last.pass
    /\ Removed # {}
    /\ last.pre.chain_active
    /\ last.pre.chain_index = 2
    /\ players["P1"].chain_index = 3


(***************************************************************************)
(* SpecChain: one per-player step (a gravity tick, a clear-delay tick, a   *)
(* swap at the cursor, a rise tick or an application of incoming garbage)  *)
(* on every player state drawn: every board of up to SmallCells cells, the *)
(* chain inactive or active, chain_ended, pending_clear and settled either *)
(* way, every phase of the gravity timer, the other timers about to fire   *)
(* and one unit of garbage incoming.                                       *)
(***************************************************************************)
InitChain ==
    /\ grid = GridNew(0, 0)
    /\ frame = NoFrame
    /\ last = [op |-> "init"]
    /\ match = MatchNew("TwoPlayer")
    /\ \E g \in BoardsOver(CellValues, SmallCells), c \in ChainStates,
          pending \in BOOLEAN, settled \in BOOLEAN, ended \in BOOLEAN,
          elapsed \in 0..(GravityTicks - 1) :
          players = [P1 |-> [BoardPlayerNew(g.width, g.height) EXCEPT
                                !.grid = g,
                                !.chain_active = c.active,
                                !.chain_index = c.index,
                                !.chain_ended = ended,
                                !.pending_clear = pending,
                                !.settled = settled,
                                !.garbage_incoming = 1,
                                !.gravity_timer = elapsed,
                                !.clear_timer = ClearTicks - 1,
                                !.rise_timer = RiseTicks - 1]]

ChainGravityCall ==
    /\ last.op = "init"
    /\ \E delta \in 1..MaxDelta :
          \E r \in BoardProcessPlayerGravity(players["P1"], delta) :
              /\ players' = [players EXCEPT !["P1"] = r.player]
              /\ last' = [op |-> "process_player_gravity", pre |-> players["P1"],
                          delta |-> delta]
    /\ UNCHANGED <<grid, match, frame>>

ChainClearCall ==
    /\ last.op = "init"
    /\ \E delta \in 1..MaxDelta :
          /\ players' = [players EXCEPT !["P1"] = BoardProcessClearDelay(@, delta).player]
          /\ last' = [op |-> "process_clear_delay", pre |-> players["P1"], delta |-> delta]
    /\ UNCHANGED <<grid, match, frame>>

ChainSwapCall ==
    /\ last.op = "init"
    /\ players' = [players EXCEPT !["P1"] = BoardTrySwap(@)]
    /\ last' = [op |-> "try_swap", pre |-> players["P1"], delta |-> 0]
    /\ UNCHANGED <<grid, match, frame>>

ChainRiseCall ==
    /\ last.op = "init"
    /\ \E delta \in 1..MaxDelta :
          \E r \in BoardRisePlayer(players["P1"], delta) :
              /\ players' = [players EXCEPT !["P1"] = r.player]
              /\ last' = [op |-> "rise_player", pre |-> players["P1"], delta |-> delta]
    /\ UNCHANGED <<grid, match, frame>>

ChainIncomingCall ==
    /\ last.op = "init"
    /\ \E r \in BoardApplyIncomingGarbage(players["P1"]) :
          /\ players' = [players EXCEPT !["P1"] = r.player]
          /\ last' = [op |-> "apply_incoming_garbage", pre |-> players["P1"], delta |-> 0]
    /\ UNCHANGED <<grid, match, frame>>

NextChain ==
    \/ ChainGravityCall
    \/ ChainClearCall
    \/ ChainSwapCall
    \/ ChainRiseCall
    \/ ChainIncomingCall

SpecChain == InitChain /\ [][NextChain]_vars

\* The step was a gravity tick in which no block moved, with the chain
\* active, no clear pending and no match on the board.
ChainEndTick ==
    /\ last.op = "process_player_gravity"
    /\ last.pre.gravity_timer + last.delta >= GravityTicks
    /\ AtRest(last.pre.grid)
    /\ last.pre.chain_active
    /\ ~last.pre.pending_clear
    /\ ~HasRunOfThree(last.pre.grid)

\* C13: the chain ends exactly on a gravity tick in which no block moved,
\* chain_active is true, pending_clear is false and the board has no matches;
\* on that tick chain_active becomes false, chain_index 0, chain_ended true,
\* every cracked garbage cell becomes a normal block and nothing else on the
\* board changes, and a match the conversion created leaves a clear pending;
\* chain_ended is raised by no other step.
C13_ChainEnd ==
    last.op # "init" =>
        LET p == players["P1"]
        IN  IF ChainEndTick
            THEN /\ ~p.chain_active
                 /\ p.chain_index = 0
                 /\ p.chain_ended
                 /\ \A i \in DOMAIN p.grid.cells :
                       IF last.pre.grid.cells[i] = Garbage(TRUE)
                       THEN IsNormal(p.grid.cells[i])
                       ELSE p.grid.cells[i] = last.pre.grid.cells[i]
                 /\ HasRunOfThree(p.grid) => p.pending_clear
            ELSE /\ last.pre.chain_active => p.chain_active
                 /\ p.chain_ended = last.pre.chain_ended

C13_Witness ==
    /\ ChainEndTick
    /\ ~last.pre.chain_ended
    /\ players["P1"].chain_ended
    /\ \E i \in DOMAIN last.pre.grid.cells : last.pre.grid.cells[i] = Garbage(TRUE)
    /\ HasRunOfThree(players["P1"].grid)
    /\ players["P1"].pending_clear


(***************************************************************************)
(* SpecIncoming: one system run in a two-player game from every state      *)
(* drawn: player 1 on every board of up to SmallCells cells with every     *)
(* combination of pending_clear, settled and rise_paused, player 2 on the  *)
(* empty board of the same size, at most one of them with garbage incoming *)
(* (resolve_garbage ends with the cancellation), either with a finished    *)
(* chain to hand over; the match running, or over and ready to restart.    *)
(* The systems are resolve_garbage, handle_restart and, on player 1, the   *)
(* per-player steps of SpecChain.                                          *)
(***************************************************************************)
\* chain_ended and garbage_outgoing drawn: nothing to hand over, or a finished
\* chain with garbage.
HandOvers ==
    {[chain_ended |-> FALSE, garbage_outgoing |-> 0]}
        \cup {[chain_ended |-> TRUE, garbage_outgoing |-> MaxOutgoing - 1]}

InitIncoming ==
    /\ grid = GridNew(0, 0)
    /\ frame = NoFrame
    /\ last = [op |-> "init"]
    /\ match \in {MatchNew("TwoPlayer"),
                  [MatchNew("TwoPlayer") EXCEPT !.active = TRUE, !.winner = "P1",
                                                !.timer_done = TRUE]}
    /\ \E g \in BoardsOver(OccupancyValues, SmallCells),
          pending \in BOOLEAN, settled \in BOOLEAN, paused \in BOOLEAN,
          i1 \in 0..MaxOutgoing, i2 \in 0..1, h1 \in HandOvers, h2 \in HandOvers :
          /\ i1 = 0 \/ i2 = 0
          /\ players =
                [P1 |-> [BoardPlayerNew(g.width, g.height) EXCEPT
                            !.grid = g,
                            !.pending_clear = pending,
                            !.settled = settled,
                            !.rise_paused = paused,
                            !.chain_ended = h1.chain_ended,
                            !.garbage_outgoing = h1.garbage_outgoing,
                            !.garbage_incoming = i1,
                            !.gravity_timer = GravityTicks - 1,
                            !.clear_timer = ClearTicks - 1,
                            !.rise_timer = RiseTicks - 1],
                 P2 |-> [BoardPlayerNew(g.width, g.height) EXCEPT
                            !.chain_ended = h2.chain_ended,
                            !.garbage_outgoing = h2.garbage_outgoing,
                            !.garbage_incoming = i2]]

IncomingResolveGarbage ==
    /\ last.op = "init"
    /\ \E r \in BoardResolveGarbage(players, match) :
          /\ players' = r.players
          /\ last' = [op |-> "resolve_garbage", ran |-> r.ran,
                      transferred |-> r.transferred, cancelled |-> r.cancelled,
                      applied |-> r.applied]
    /\ UNCHANGED <<grid, match, frame>>

\* handle_restart, with a restart key or button just pressed.
IncomingHandleRestart ==
    /\ last.op = "init"
    /\ match.active /\ match.timer_done
    /\ \E r1 \in BoardResetPlayer(players["P1"]), r2 \in BoardResetPlayer(players["P2"]) :
          players' = [P1 |-> r1.player, P2 |-> r2.player]
    /\ match' = [match EXCEPT !.active = FALSE, !.winner = "None", !.timer_done = FALSE]
    /\ last' = [op |-> "handle_restart"]
    /\ UNCHANGED <<grid, frame>>

NextIncoming ==
    \/ IncomingResolveGarbage
    \/ IncomingHandleRestart
    \/ ~match.active /\ ChainGravityCall
    \/ ~match.active /\ ChainClearCall
    \/ ~match.active /\ ChainSwapCall
    \/ ~match.active /\ ChainRiseCall

SpecIncoming == InitIncoming /\ [][NextIncoming]_vars

\* resolve_garbage ran and reached apply_incoming_garbage for player p; Before
\* is the player as that call found it.
Applied(p) == last.op = "resolve_garbage" /\ last.ran

Before(p) == last.cancelled[p]

\* C14: apply_incoming_garbage leaves the grid and garbage_incoming unchanged
\* whenever the player has a pending clear, is not settled or is rise-paused;
\* garbage is inserted only into a board that is settled, with no pending
\* clear and not rise-paused, and after a successful insertion
\* garbage_incoming is 0 and settled is false.
C14_IncomingGated ==
    \A p \in PlayerId :
        Applied(p) =>
            /\ (Before(p).pending_clear \/ ~Before(p).settled \/ Before(p).rise_paused)
                  => /\ players[p].grid = Before(p).grid
                     /\ players[p].garbage_incoming = Before(p).garbage_incoming
            /\ (players[p].grid # Before(p).grid \/ last.applied[p].inserted)
                  => /\ Before(p).settled
                     /\ ~Before(p).pending_clear
                     /\ ~Before(p).rise_paused
                     /\ players[p].garbage_incoming = 0
                     /\ ~players[p].settled

\* Two units of garbage went into a settled board that held a normal block.
C14_Witness ==
    /\ Applied("P1")
    /\ Before("P1").garbage_incoming = 2
    /\ \E i \in DOMAIN Before("P1").grid.cells : IsNormal(Before("P1").grid.cells[i])
    /\ last.applied["P1"].inserted
    /\ players["P1"].grid # Before("P1").grid
    /\ players["P1"].garbage_incoming = 0
    /\ ~players["P1"].settled

\* C15: when the insertion attempted by apply_incoming_garbage fails, the grid
\* is unchanged, garbage_incoming is what it was before the attempt and
\* settled is unchanged; and in every step a player's garbage_incoming
\* decreases only by the cancellation, by a successful insertion or by the
\* reset of a restart.
C15_UnitsKept ==
    /\ [](\A p \in PlayerId :
            (Applied(p) /\ last.applied[p].tried /\ ~last.applied[p].inserted)
                => /\ players[p].grid = Before(p).grid
                   /\ players[p].garbage_incoming = Before(p).garbage_incoming
                   /\ players[p].settled = Before(p).settled)
    /\ [][\A p \in PlayerId :
            players'[p].garbage_incoming < players[p].garbage_incoming
                => \/ last'.op = "handle_restart"
                   \/ /\ last'.op = "resolve_garbage"
                      /\ players'[p].garbage_incoming =
                            IF last'.applied[p].inserted THEN 0
                            ELSE last'.transferred[p].garbage_incoming
                                 - Min(last'.transferred["P1"].garbage_incoming,
                                       last'.transferred["P2"].garbage_incoming)]_vars

\* An insertion was attempted on a board with no room and failed.
C15_Witness ==
    /\ Applied("P1")
    /\ last.applied["P1"].tried
    /\ ~last.applied["P1"].inserted
    /\ Before("P1").garbage_incoming = 2
    /\ players["P1"].garbage_incoming = 2


(***************************************************************************)
(* SpecRise: one run of rise_stack in either mode from every state drawn:  *)
(* player 1 on every board of up to SmallCells cells with the cursor in    *)
(* any row, rise_paused and settled either way and the clear timer partly  *)
(* run; player 2 on a board of the same size that is empty or full; both   *)
(* rise timers in the same phase (they are reset and ticked together),     *)
(* just reset or about to fire.                                            *)
(***************************************************************************)
\* The board of width w and height h with every cell holding the same block.
FullBoard(w, h) ==
    [GridNew(w, h) EXCEPT !.cells = [i \in DOMAIN @ |-> Normal(BlockColor[1])]]

InitRise ==
    /\ grid = GridNew(0, 0)
    /\ frame = NoFrame
    /\ last = [op |-> "init"]
    /\ \E m \in Modes : match = MatchNew(m)
    /\ \E g \in BoardsOver(CellValues, SmallCells), paused \in BOOLEAN, settled \in BOOLEAN,
          elapsed \in {0, RiseTicks - 1}, full \in BOOLEAN :
          \E y \in {r \in 0..MaxH : r = 0 \/ r < g.height} :
              players =
                  [P1 |-> [BoardPlayerNew(g.width, g.height) EXCEPT
                              !.grid = g,
                              !.cursor = CursorNew(0, y),
                              !.rise_paused = paused,
                              !.settled = settled,
                              !.rise_timer = elapsed,
                              !.clear_timer = ClearTicks - 1],
                   P2 |-> [BoardPlayerNew(g.width, g.height) EXCEPT
                              !.grid = IF full /\ match.mode = "TwoPlayer"
                                       THEN FullBoard(g.width, g.height)
                                       ELSE @,
                              !.rise_timer = elapsed]]

RiseStackSystem ==
    /\ last.op = "init"
    /\ \E delta \in 1..MaxDelta :
          \E r \in BoardRiseStack(players, match, delta) :
              /\ players' = r.players
              /\ match' = r.match
              /\ last' = [op |-> "rise_stack", pre |-> players, delta |-> delta]
    /\ UNCHANGED <<grid, frame>>

SpecRise == InitRise /\ [][RiseStackSystem]_vars

\* The players rise_stack processes in the mode played.
Rising == IF match.mode = "TwoPlayer" THEN PlayerId ELSE {"P1"}

\* Before the run, player p's rise timer was about to fire and p was not
\* rise-paused, was settled and had no garbage able to fall.
RiseDue(p) ==
    LET q == last.pre[p]
    IN  /\ q.rise_timer + last.delta >= RiseTicks
        /\ ~q.rise_paused
        /\ q.settled
        /\ \A i \in GarbageCells(q.grid) : ~Qualifies(q.grid, ComponentOf(q.grid, i))

\* Some cell of the top row of g holds a block.
TopRowHeld(g) ==
    \E i \in DOMAIN g.cells : i >= g.width * (g.height - 1) /\ g.cells[i] # None

\* C16: a new bottom row is pushed only on a tick where the rise timer fires,
\* rise_paused is false, settled is true, no garbage can fall and the top row
\* is unoccupied; the push lifts every row by one over a new row of normal
\* blocks, moves the cursor up one row unless it is on the top row, and sets
\* pending_clear with the clear timer restarted if the board then has matches;
\* on any other tick the board, the cursor and pending_clear stay.
C16_RisePush ==
    last.op = "rise_stack" =>
        \A p \in Rising :
            LET q == last.pre[p]
                r == players[p]
            IN  IF RiseDue(p) /\ ~TopRowHeld(q.grid)
                THEN /\ \A i \in DOMAIN q.grid.cells :
                           IF i < q.grid.width
                           THEN IsNormal(r.grid.cells[i])
                           ELSE r.grid.cells[i] = q.grid.cells[i - q.grid.width]
                     /\ r.cursor.x = q.cursor.x
                     /\ r.cursor.y = IF q.cursor.y + 1 < q.grid.height
                                     THEN q.cursor.y + 1 ELSE q.cursor.y
                     /\ IF HasRunOfThree(r.grid)
                        THEN r.pending_clear /\ r.clear_timer = 0
                        ELSE r.pending_clear = q.pending_clear
                             /\ r.clear_timer = q.clear_timer
                ELSE /\ r.grid = q.grid
                     /\ r.cursor = q.cursor
                     /\ r.pending_clear = q.pending_clear

\* A row was pushed under a board with blocks, the cursor went up with it and
\* the new row completed a match.
C16_Witness ==
    /\ last.op = "rise_stack"
    /\ RiseDue("P1")
    /\ players["P1"].grid # last.pre["P1"].grid
    /\ \E i \in DOMAIN last.pre["P1"].grid.cells : last.pre["P1"].grid.cells[i] # None
    /\ players["P1"].cursor.y = last.pre["P1"].cursor.y + 1
    /\ HasRunOfThree(players["P1"].grid)
    /\ players["P1"].pending_clear
    /\ players["P1"].clear_timer = 0

\* C17: a player loses exactly when the player's rise timer fires while the
\* player is not rise-paused, is settled, has no falling garbage and the top
\* row is occupied; the match is then over with the opponent designated
\* winner in two-player mode and no winner in one-player mode, and the losing
\* board is not changed; otherwise the match goes on.
C17_LossAndWinner ==
    last.op = "rise_stack" =>
        /\ \A p \in Rising :
              (RiseDue(p) /\ TopRowHeld(last.pre[p].grid))
                  => /\ match.active
                     /\ match.winner = IF match.mode = "TwoPlayer"
                                       THEN Opponent(p) ELSE "None"
                     /\ players[p].grid = last.pre[p].grid
        /\ match.active
              => \E p \in Rising : RiseDue(p) /\ TopRowHeld(last.pre[p].grid)


(***************************************************************************)
(* SpecPause: one step of player 1 in a one-player game (a clear-delay     *)
(* tick, a run of rise_stack, a rise-pause tick, a gravity tick or a swap) *)
(* from every state drawn: every board of up to SmallCells cells,          *)
(* rise_paused, pending_clear and settled either way, every phase of the   *)
(* rise-pause timer, the rise timer just reset or about to fire, the clear *)
(* and gravity timers about to fire.                                       *)
(***************************************************************************)
InitPause ==
    /\ grid = GridNew(0, 0)
    /\ frame = NoFrame
    /\ last = [op |-> "init"]
    /\ match = MatchNew("OnePlayer")
    /\ \E g \in BoardsOver(CellValues, SmallCells), paused \in BOOLEAN,
          pending \in BOOLEAN, settled \in BOOLEAN,
          pause_elapsed \in 0..(RisePauseTicks - 1), rise_elapsed \in {0, RiseTicks - 1} :
          players = [P1 |-> [BoardPlayerNew(g.width, g.height) EXCEPT
                                !.grid = g,
                                !.rise_paused = paused,
                                !.pending_clear = pending,
                                !.settled = settled,
                                !.rise_pause_timer = pause_elapsed,
                                !.rise_timer = rise_elapsed,
                                !.clear_timer = ClearTicks - 1,
                                !.gravity_timer = GravityTicks - 1],
                     P2 |-> BoardPlayerNew(g.width, g.height)]

PauseRiseStack ==
    /\ last.op = "init"
    /\ \E delta \in 1..MaxDelta :
          \E r \in BoardRiseStack(players, match, delta) :
              /\ players' = r.players
              /\ match' = r.match
              /\ last' = [op |-> "rise_stack", pre |-> players["P1"], delta |-> delta]
    /\ UNCHANGED <<grid, frame>>

PauseTickRisePause ==
    /\ last.op = "init"
    /\ \E delta \in 1..MaxDelta :
          /\ players' = [players EXCEPT !["P1"] = BoardTickRisePause(@, delta)]
          /\ last' = [op |-> "tick_rise_pause", pre |-> players["P1"], delta |-> delta]
    /\ UNCHANGED <<grid, match, frame>>

NextPause ==
    \/ ChainClearCall
    \/ PauseRiseStack
    \/ PauseTickRisePause
    \/ ChainGravityCall
    \/ ChainSwapCall

SpecPause == InitPause /\ [][NextPause]_vars

\* C18: a clear pass that removes at least one cell sets rise_paused and
\* restarts the rise-pause timer from zero; while rise_paused is true no row
\* is pushed and no loss is declared; rise_paused becomes false only in a
\* rise-pause tick in which the rise-pause timer finishes, whatever the rise
\* timer, which that tick leaves alone.
C18_RisePause ==
    last.op # "init" =>
        LET q == last.pre
            r == players["P1"]
        IN  /\ (last.op = "process_clear_delay" /\ Removed # {})
                  => (r.rise_paused /\ r.rise_pause_timer = 0)
            /\ (last.op = "rise_stack" /\ q.rise_paused)
                  => (r.grid = q.grid /\ ~match.active /\ r.rise_paused)
            /\ (q.rise_paused /\ ~r.rise_paused)
                  => /\ last.op = "tick_rise_pause"
                     /\ q.rise_pause_timer + last.delta >= RisePauseTicks
            /\ last.op = "tick_rise_pause"
                  => /\ r.rise_timer = q.rise_timer
                     /\ (q.rise_paused /\ q.rise_pause_timer + last.delta >= RisePauseTicks)
                           => ~r.rise_paused

\* The rise timer fired over an occupied top row during a rise pause: nothing
\* was pushed and the game went on.
C18_Witness ==
    /\ last.op = "rise_stack"
    /\ last.pre.rise_paused
    /\ last.pre.settled
    /\ last.pre.rise_timer + last.delta >= RiseTicks
    /\ TopRowHeld(last.pre.grid)
    /\ ~match.active
    /\ players["P1"].grid = last.pre.grid


(***************************************************************************)
(* SpecCursor: the cursor of one player from reset_player on, on a board   *)
(* of any size of up to SmallCells cells (the degenerate sizes included),  *)
(* through any sequence of move_by calls with dx and dy in                 *)
(* -MaxStep..MaxStep, swaps at the cursor, rise ticks and resets.  Gravity *)
(* and clears, which do not touch the cursor, are left out, so the board   *)
(* only fills up.                                                          *)
(***************************************************************************)
InitCursor ==
    /\ grid = GridNew(0, 0)
    /\ frame = NoFrame
    /\ last = [op |-> "init"]
    /\ match = MatchNew("OnePlayer")
    /\ \E d \in Dims(SmallCells) :
          \E r \in BoardResetPlayer(BoardPlayerNew(d[1], d[2])) :
              players = [P1 |-> r.player]

CursorMoveBy ==
    /\ \E dx \in (0 - MaxStep)..MaxStep, dy \in (0 - MaxStep)..MaxStep :
          LET p == players["P1"]
              r == MoveBy(p.cursor, dx, dy, p.grid.width, p.grid.height)
          IN  /\ players' = [players EXCEPT !["P1"].cursor = r.cursor]
              /\ last' = [op |-> "move_by", pre |-> p.cursor, dx |-> dx, dy |-> dy,
                          ret |-> r.ret]
    /\ UNCHANGED <<grid, match, frame>>

CursorTrySwap ==
    /\ players' = [players EXCEPT !["P1"] = BoardTrySwap(@)]
    /\ last' = [op |-> "try_swap"]
    /\ UNCHANGED <<grid, match, frame>>

\* rise_player with a delta that makes the rise timer fire.
CursorRisePlayer ==
    /\ \E r \in BoardRisePlayer(players["P1"], RiseTicks) :
          players' = [players EXCEPT !["P1"] = r.player]
    /\ last' = [op |-> "rise_player"]
    /\ UNCHANGED <<grid, match, frame>>

CursorResetPlayer ==
    /\ \E r \in BoardResetPlayer(players["P1"]) :
          players' = [players EXCEPT !["P1"] = r.player]
    /\ last' = [op |-> "reset_player"]
    /\ UNCHANGED <<grid, match, frame>>

NextCursor ==
    \/ CursorMoveBy
    \/ CursorTrySwap
    \/ CursorRisePlayer
    \/ CursorResetPlayer

SpecCursor == InitCursor /\ [][NextCursor]_vars

\* v brought into lo..hi.
Within(v, lo, hi) == IF v < lo THEN lo ELSE IF v > hi THEN hi ELSE v

\* C19: on a board with width >= 2 and height >= 1 the cursor satisfies
\* 0 <= x <= width - 2 and 0 <= y <= height - 1 in every reachable state, so
\* both cells of the swap footprint built by SwapCmd::right_of are on the
\* board; move_by takes each coordinate to the nearest value of its range
\* (it clamps, it does not wrap) and returns true iff the position changed.
C19_CursorInBounds ==
    LET p == players["P1"]
        w == p.grid.width
        h == p.grid.height
        cmd == RightOf(p.cursor.x, p.cursor.y)
    IN  (w >= 2 /\ h >= 1) =>
            /\ 0 <= p.cursor.x /\ p.cursor.x <= w - 2
            /\ 0 <= p.cursor.y /\ p.cursor.y <= h - 1
            /\ cmd.ax < w /\ cmd.bx < w /\ cmd.ay < h /\ cmd.by < h
            /\ last.op = "move_by"
                  => /\ p.cursor.x = Within(last.pre.x + last.dx, 0, w - 2)
                     /\ p.cursor.y = Within(last.pre.y + last.dy, 0, h - 1)
                     /\ last.ret = (p.cursor # last.pre)

\* A move of two columns to the right and one row down from the last column
\* but one of the bottom row stopped at the wall and returned false.
C19_Witness ==
    /\ last.op = "move_by"
    /\ players["P1"].grid.width = 3
    /\ last.pre = CursorNew(1, 0)
    /\ last.dx = 2 /\ last.dy = -1
    /\ players["P1"].cursor = CursorNew(1, 0)
    /\ ~last.ret


(***************************************************************************)
(* SpecConvert: one call of convert_cracked_garbage on every board of up   *)
(* to SmallCells cells, with every colour the retry loops can end on.      *)
(***************************************************************************)
InitConvert ==
    /\ grid \in BoardsOver(CellValues, SmallCells)
    /\ last = [op |-> "init"]
    /\ GameIdle

ConvertCrackedGarbageCall ==
    /\ last.op = "init"
    /\ \E r \in ConvertCrackedGarbage(grid) :
          /\ grid' = r.grid
          /\ last' = [op |-> "convert_cracked_garbage", pre |-> grid,
                      converted |-> r.converted, exhausted |-> r.exhausted]
    /\ UNCHANGED <<players, match, frame>>

SpecConvert == InitConvert /\ [][ConvertCrackedGarbageCall]_vars

\* Cell (x, y) of g is a normal block and one of three normal blocks of its
\* colour side by side in its row or stacked in its column.
InRunOfThree(g, x, y) ==
    /\ Cell(g, x, y).kind = "Normal"
    /\ \/ \E x0 \in (x - 2)..x :
             /\ x0 >= 0 /\ x0 + 2 < g.width
             /\ \A k \in 0..2 : Cell(g, x0 + k, y) = Cell(g, x, y)
       \/ \E y0 \in (y - 2)..y :
             /\ y0 >= 0 /\ y0 + 2 < g.height
             /\ \A k \in 0..2 : Cell(g, x, y0 + k) = Cell(g, x, y)

\* The board at the moment the conversion wrote cell i: the cells up to i in
\* the order of the scan as the call left them, the later cells as before.
WhenPlaced(pre, post, i) ==
    [pre EXCEPT !.cells = [j \in DOMAIN pre.cells |->
                              IF j <= i THEN post.cells[j] ELSE pre.cells[j]]]

\* C21: when no retry loop of a convert_cracked_garbage call was exhausted,
\* no converted cell lies, at the moment it is placed, in a horizontal or
\* vertical run of three or more normal blocks of its colour.
C21_ConvertAvoidsRuns ==
    (last.op = "convert_cracked_garbage" /\ ~last.exhausted) =>
        \A i \in DOMAIN grid.cells :
            last.pre.cells[i] = Garbage(TRUE) =>
                ~InRunOfThree(WhenPlaced(last.pre, grid, i),
                              i % grid.width, i \div grid.width)


(***************************************************************************)
(* SpecFill: one call of fill_test_pattern on the empty grid of every size *)
(* up to FillW x FillH, with every colour the retry loops can end on.  A   *)
(* grid of height 6 is the lowest on which three rows are filled.          *)
(***************************************************************************)
FillW == 3
FillH == 6

InitFill ==
    /\ grid \in {GridNew(w, h) : w \in 0..FillW, h \in 0..FillH}
    /\ last = [op |-> "init"]
    /\ GameIdle

FillTestPatternCall ==
    /\ last.op = "init"
    /\ \E r \in FillTestPattern(grid) :
          /\ grid' = r.grid
          /\ last' = [op |-> "fill_test_pattern", pre |-> grid,
                      exhausted |-> r.exhausted]
    /\ UNCHANGED <<players, match, frame>>

SpecFill == InitFill /\ [][FillTestPatternCall]_vars

\* C22: after fill_test_pattern on an empty grid the bottom floor(height/2)
\* rows hold normal blocks only and every row above is empty, and, when no
\* retry loop was exhausted, the board has no horizontal or vertical run of
\* three or more blocks of one colour and has_matches() is false.
C22_FillPattern ==
    last.op = "fill_test_pattern" =>
        /\ \A x \in 0..(grid.width - 1), y \in 0..(grid.height - 1) :
              IF 2 * (y + 1) <= grid.height
              THEN Cell(grid, x, y).kind = "Normal"
              ELSE Cell(grid, x, y) = None
        /\ ~last.exhausted => (~HasRunOfThree(grid) /\ ~HasMatches(grid))


(***************************************************************************)
(* SpecPush: one call of push_bottom_row on every board of up to MaxCells  *)
(* cells, with every colour the retry loops of the new row can end on.     *)
(***************************************************************************)
InitPush ==
    /\ grid \in BoardsOver(CellValues, MaxCells)
    /\ last = [op |-> "init"]
    /\ GameIdle

PushBottomRowCall ==
    /\ last.op = "init"
    /\ \E r \in PushBottomRow(grid) :
          /\ grid' = r.grid
          /\ last' = [op |-> "push_bottom_row", pre |-> grid,
                      exhausted |-> r.exhausted]
    /\ UNCHANGED <<players, match, frame>>

SpecPush == InitPush /\ [][PushBottomRowCall]_vars

\* Some cell of the top row of g holds a block.
TopRowHasBlock(g) ==
    \E x \in 0..(g.width - 1) : g.height >= 1 /\ Cell(g, x, g.height - 1) # None

\* C23: push_bottom_row leaves the grid unchanged when a cell of the top row
\* is occupied; otherwise every cell (x, y) with y >= 1 then equals the
\* previous content of cell (x, y - 1) and every cell of row 0 holds a
\* normal block.
C23_PushShifts ==
    last.op = "push_bottom_row" =>
        /\ grid.width = last.pre.width /\ grid.height = last.pre.height
        /\ IF TopRowHasBlock(last.pre)
           THEN grid = last.pre
           ELSE \A x \in 0..(grid.width - 1), y \in 0..(grid.height - 1) :
                   IF y >= 1
                   THEN Cell(grid, x, y) = Cell(last.pre, x, y - 1)
                   ELSE Cell(grid, x, y).kind = "Normal"

\* A push that lifted a normal block, an intact and a cracked garbage cell by
\* one row, each as it was.
C23_Witness ==
    /\ last.op = "push_bottom_row"
    /\ ~TopRowHasBlock(last.pre)
    /\ grid.width = 3 /\ grid.height = 2
    /\ Cell(last.pre, 0, 0).kind = "Normal" /\ Cell(grid, 0, 1) = Cell(last.pre, 0, 0)
    /\ Cell(last.pre, 1, 0) = Garbage(FALSE) /\ Cell(grid, 1, 1) = Garbage(FALSE)
    /\ Cell(last.pre, 2, 0) = Garbage(TRUE) /\ Cell(grid, 2, 1) = Garbage(TRUE)
    /\ \A x \in 0..2 : Cell(grid, x, 0).kind = "Normal"

\* C24: when push_bottom_row inserts a row and no retry loop was exhausted,
\* no cell of the new row 0 is one of three normal blocks of its colour side
\* by side in row 0 or stacked in its column on the resulting board.
C24_NewRowAvoidsRuns ==
    (/\ last.op = "push_bottom_row"
     /\ ~TopRowHasBlock(last.pre)
     /\ ~last.exhausted) =>
        \A x \in 0..(grid.width - 1) :
            grid.height >= 1 => ~InRunOfThree(grid, x, 0)

\* A push without exhausted retries under a column of two blocks of one
\* colour: the new block below them has the other colour.
C24_Witness ==
    /\ last.op = "push_bottom_row"
    /\ ~TopRowHasBlock(last.pre)
    /\ ~last.exhausted
    /\ grid.width = 2 /\ grid.height = 3
    /\ Cell(last.pre, 0, 0).kind = "Normal"
    /\ Cell(last.pre, 0, 1) = Cell(last.pre, 0, 0)
    /\ Cell(grid, 0, 2) = Cell(grid, 0, 1)
    /\ Cell(grid, 0, 0) # Cell(grid, 0, 1)
    /\ Cell(grid, 1, 0) = Cell(grid, 0, 0)


(***************************************************************************)
(* SpecMatch: clear_matches_once_with_stats, called on every board of up   *)
(* to MaxCells cells and on the MaxW x MaxH boards that hold two lines of  *)
(* three or more blocks of one colour among cells of one other content,    *)
(* and again on what it leaves.  The larger boards have room for runs that *)
(* cross and for separate runs.                                            *)
(***************************************************************************)
\* The straight lines of three or more cells of a MaxW x MaxH board.
Lines ==
    {{s[2] * MaxW + s[1] + k : k \in 0..(s[3] - 1)} :
        s \in {t \in (0..(MaxW - 1)) \X (0..(MaxH - 1)) \X (3..MaxW) :
                  t[1] + t[3] <= MaxW}}
    \cup {{(s[2] + k) * MaxW + s[1] : k \in 0..(s[3] - 1)} :
        s \in {t \in (0..(MaxW - 1)) \X (0..(MaxH - 1)) \X (3..MaxH) :
                  t[2] + t[3] <= MaxH}}

PatternBoards ==
    {[width |-> MaxW, height |-> MaxH,
      cells |-> [i \in 0..(MaxW * MaxH - 1) |->
                    IF i \in a \cup b THEN Normal(BlockColor[1]) ELSE filler]]
     : a \in Lines, b \in Lines,
       filler \in CellValues \ {Normal(BlockColor[1])}}

InitMatch ==
    /\ grid \in BoardsOver(CellValues, MaxCells) \cup PatternBoards
    /\ last = [op |-> "init"]
    /\ GameIdle

SpecMatch == InitMatch /\ [][ClearMatchesCall]_vars

\* The cells of the mask that the call returned.
Marked == {i \in DOMAIN last.marks : last.marks[i]}

\* C25: has_matches() is true iff some normal block lies in a horizontal or
\* vertical run of at least three normal blocks of one colour; the mask
\* marks exactly the cells of such runs, so an empty cell or a garbage cell,
\* cracked or intact, is never marked and never removed by a clear.
C25_MatchMask ==
    last.op = "clear_matches_once_with_stats" =>
        /\ HasMatches(last.pre) <=> HasRunOfThree(last.pre)
        /\ \A i \in DOMAIN last.pre.cells :
              last.marks[i] <=> InRunOfThree(last.pre, i % last.pre.width,
                                             i \div last.pre.width)
        /\ \A i \in DOMAIN last.pre.cells :
              last.pre.cells[i].kind # "Normal" =>
                  (~last.marks[i] /\ grid.cells[i] = last.pre.cells[i])

\* A call on a board with a row and a column of three that share a cell,
\* among cracked garbage cells: five cells marked, the garbage untouched.
C25_Witness ==
    /\ last.op = "clear_matches_once_with_stats"
    /\ last.pre.width = 3 /\ last.pre.height = 3
    /\ Marked = {0, 1, 2, 3, 6}
    /\ \A i \in {4, 5, 7, 8} : last.pre.cells[i] = Garbage(TRUE)
    /\ \A i \in {4, 5, 7, 8} : grid.cells[i] = Garbage(TRUE)

\* The 4-connected pieces of the mask: for each marked cell, the marked cells
\* joined to it.
MarkPieces == {Flood(last.pre, Marked, {i}) : i \in Marked}

\* C26: when matches exist, clear_matches_once_with_stats empties exactly
\* the marked cells and leaves every other cell unchanged, returns cleared =
\* the number of marked cells and groups = the number of 4-connected
\* components of the mask, so that cleared >= 3, groups >= 1 and
\* 3 * groups <= cleared.
C26_ClearStats ==
    (last.op = "clear_matches_once_with_stats" /\ HasRunOfThree(last.pre)) =>
        /\ Marked # {}
        /\ \A i \in DOMAIN grid.cells :
              grid.cells[i] = IF i \in Marked THEN None ELSE last.pre.cells[i]
        /\ grid.width = last.pre.width /\ grid.height = last.pre.height
        /\ last.cleared = Cardinality(Marked)
        /\ last.groups = Cardinality(MarkPieces)
        /\ last.cleared >= 3
        /\ last.groups >= 1
        /\ 3 * last.groups <= last.cleared

\* A call that cleared two separate rows of three around a row of intact
\* garbage: two groups, six cells.
C26_Witness ==
    /\ last.op = "clear_matches_once_with_stats"
    /\ last.pre.width = 3 /\ last.pre.height = 3
    /\ Marked = {0, 1, 2, 6, 7, 8}
    /\ last.groups = 2 /\ last.cleared = 6
    /\ \A i \in 3..5 : grid.cells[i] = Garbage(FALSE)
    /\ \A i \in Marked : grid.cells[i] = None


(***************************************************************************)
(* SpecReset: reset_player on the whole PlayerState.  The fields that the  *)
(* steps of the game write are drawn (each group of them either as         *)
(* PlayerState::new leaves it or changed), the input-repeat fields are     *)
(* reached through update_repeat_move, and reset_player is called at any   *)
(* point.                                                                  *)
(***************************************************************************)
RepeatDelayTicks == 3
RepeatIntervalTicks == 2

\* Option<IVec2>
DirNone == [some |-> FALSE]

DirSome(x, y) == [some |-> TRUE, x |-> x, y |-> y]

Directions == {DirSome(0 - 1, 0), DirSome(1, 0), DirSome(0, 1), DirSome(0, 0 - 1)}

\* Timer::from_seconds(duration, mode), for the input-repeat timer, whose mode
\* and duration change.
TimerFrom(duration, mode) ==
    [mode |-> mode, duration |-> duration, elapsed |-> 0, finished |-> FALSE]

\* Timer::tick on such a timer: a finished Once timer stays as it is, a Once
\* timer stops at its duration, a Repeating timer wraps.
TimerTickMode(t, delta) ==
    IF t.mode = "Once" /\ t.finished
    THEN [timer |-> t, just_finished |-> FALSE]
    ELSE LET e == t.elapsed + delta
             done == e >= t.duration
         IN  [timer |-> [t EXCEPT !.elapsed = IF ~done THEN e
                                               ELSE IF t.mode = "Repeating"
                                               THEN e % t.duration
                                               ELSE t.duration,
                                  !.finished = done],
              just_finished |-> done]

\* Timer::reset on such a timer.
TimerResetMode(t) == [t EXCEPT !.elapsed = 0, !.finished = FALSE]

\* PlayerState::new with a grid of the given size, every field.
FullPlayerNew(w, h) ==
    BoardPlayerNew(w, h) @@
        [score          |-> 0,
         elapsed        |-> 0,
         rise_level     |-> 0,
         repeat_dir     |-> DirNone,
         repeat_timer   |-> TimerFrom(RepeatDelayTicks, "Once"),
         repeat_initial |-> TRUE]

\* reset_player on every field: the set of outcomes, each the player and
\* whether a retry loop of fill_test_pattern was exhausted.
FullResetPlayer(player) ==
    {[player |-> r.player @@
                     [score          |-> 0,
                      elapsed        |-> 0,
                      rise_level     |-> 0,
                      repeat_dir     |-> player.repeat_dir,
                      repeat_timer   |-> player.repeat_timer,
                      repeat_initial |-> player.repeat_initial],
      exhausted |-> r.exhausted]
     : r \in BoardResetPlayer(player)}

\* update_repeat_move with the direction that select_direction returned.
UpdateRepeatMove(player, dir, delta) ==
    IF dir.some
    THEN IF player.repeat_dir # dir
         THEN [BoardMoveCursor(player, dir.x, dir.y) EXCEPT
                  !.repeat_dir = dir,
                  !.repeat_initial = TRUE,
                  !.repeat_timer = TimerFrom(RepeatDelayTicks, "Once")]
         ELSE LET t == TimerTickMode(player.repeat_timer, delta)
                  p == [player EXCEPT !.repeat_timer = t.timer]
              IN  IF ~t.just_finished THEN p
                  ELSE LET m == BoardMoveCursor(p, dir.x, dir.y)
                       IN  IF m.repeat_initial
                           THEN [m EXCEPT
                                   !.repeat_initial = FALSE,
                                   !.repeat_timer =
                                       TimerFrom(RepeatIntervalTicks, "Repeating")]
                           ELSE m
    ELSE [player EXCEPT !.repeat_dir = DirNone,
                        !.repeat_initial = TRUE,
                        !.repeat_timer = TimerResetMode(@)]

\* A player in the middle of a game: for each group of fields, b says whether
\* it differs from what PlayerState::new sets.
MidGame(g, b) ==
    [FullPlayerNew(g.width, g.height) EXCEPT
        !.grid = g,
        !.pending_clear = b[1],
        !.settled = ~b[1],
        !.rise_paused = b[1],
        !.chain_active = b[2],
        !.chain_index = IF b[2] THEN MaxChainIndex ELSE 0,
        !.chain_ended = b[3],
        !.garbage_outgoing = IF b[3] THEN MaxOutgoing ELSE 0,
        !.garbage_incoming = IF b[3] THEN MaxOutgoing ELSE 0,
        !.score = IF b[4] THEN MaxCleared ELSE 0,
        !.elapsed = IF b[4] THEN 1 ELSE 0,
        !.rise_level = IF b[4] THEN 1 ELSE 0,
        !.clear_timer = IF b[5] THEN ClearTicks - 1 ELSE 0,
        !.gravity_timer = IF b[5] THEN GravityTicks - 1 ELSE 0,
        !.rise_timer = IF b[5] THEN RiseTicks - 1 ELSE 0,
        !.rise_pause_timer = IF b[5] THEN RisePauseTicks - 1 ELSE 0]

InitReset ==
    /\ grid = GridNew(0, 0)
    /\ frame = NoFrame
    /\ last = [op |-> "init"]
    /\ match = MatchNew("OnePlayer")
    /\ \E d \in Dims(SmallCells), full \in BOOLEAN, b \in [1..5 -> BOOLEAN] :
          players = [P1 |-> MidGame(IF full THEN FullBoard(d[1], d[2])
                                            ELSE GridNew(d[1], d[2]), b)]

ResetUpdateRepeatMove ==
    /\ last.op # "reset_player"
    /\ \E dir \in Directions \cup {DirNone}, delta \in 1..MaxDelta :
          /\ players' = [players EXCEPT
                            !["P1"] = UpdateRepeatMove(players["P1"], dir, delta)]
          /\ last' = [op |-> "update_repeat_move"]
    /\ UNCHANGED <<grid, match, frame>>

ResetPlayerCall ==
    /\ last.op # "reset_player"
    /\ \E r \in FullResetPlayer(players["P1"]) :
          /\ players' = [players EXCEPT !["P1"] = r.player]
          /\ last' = [op |-> "reset_player", pre |-> players["P1"],
                      exhausted |-> r.exhausted]
    /\ UNCHANGED <<grid, match, frame>>

NextReset == ResetUpdateRepeatMove \/ ResetPlayerCall

SpecReset == InitReset /\ [][NextReset]_vars

\* The grid holds the test pattern and nothing else: normal blocks in the
\* bottom floor(height/2) rows, empty cells above.
OnlyTestPattern(g) ==
    \A x \in 0..(g.width - 1), y \in 0..(g.height - 1) :
        IF 2 * (y + 1) <= g.height
        THEN Cell(g, x, y).kind = "Normal"
        ELSE Cell(g, x, y) = None

\* C27: after reset_player the grid holds only the test pattern, the cursor
\* is (0, 0), score, elapsed, chain_index, garbage_outgoing and
\* garbage_incoming are 0, pending_clear, rise_paused, chain_active and
\* chain_ended are false, settled is true, and the rise, rise-pause,
\* gravity-step, clear-delay and input-repeat timers are reset, with no
\* input repeat in progress, whatever the state before.
C27_FullReset ==
    last.op = "reset_player" =>
        LET p == players["P1"]
        IN  /\ OnlyTestPattern(p.grid)
            /\ p.grid.width = last.pre.grid.width
            /\ p.grid.height = last.pre.grid.height
            /\ p.cursor = CursorNew(0, 0)
            /\ p.score = 0 /\ p.elapsed = 0 /\ p.chain_index = 0
            /\ p.garbage_outgoing = 0 /\ p.garbage_incoming = 0
            /\ ~p.pending_clear /\ ~p.rise_paused
            /\ ~p.chain_active /\ ~p.chain_ended
            /\ p.settled
            /\ p.rise_timer = 0 /\ p.rise_pause_timer = 0
            /\ p.gravity_timer = 0 /\ p.clear_timer = 0
            /\ p.repeat_timer.elapsed = 0 /\ ~p.repeat_timer.finished
            /\ p.repeat_dir = DirNone /\ p.repeat_initial


(***************************************************************************)
(* SpecExchange: one run of rise_stack or of resolve_garbage in a          *)
(* two-player match, from states in which each player has a board of its   *)
(* own (empty, bottom row filled, or full), flags and garbage counters.    *)
(***************************************************************************)
\* The board of width w and height h with blocks in row 0 only.
BottomRowBoard(w, h) ==
    [GridNew(w, h) EXCEPT !.cells = [i \in DOMAIN @ |->
                                        IF i < w THEN Normal(BlockColor[1]) ELSE None]]

SideBoards(w, h) == {GridNew(w, h), BottomRowBoard(w, h), FullBoard(w, h)}

\* One player's side of a running match on a w x h board.
Sides(w, h) ==
    {[BoardPlayerNew(w, h) EXCEPT
         !.grid = g,
         !.settled = settled,
         !.rise_paused = paused,
         !.chain_ended = ho.chain_ended,
         !.garbage_outgoing = ho.garbage_outgoing,
         !.garbage_incoming = incoming]
     : g \in SideBoards(w, h), settled \in BOOLEAN, paused \in BOOLEAN,
       ho \in HandOvers, incoming \in 0..MaxRows}

InitExchange ==
    /\ grid = GridNew(0, 0)
    /\ frame = NoFrame
    /\ last = [op |-> "init"]
    /\ match = MatchNew("TwoPlayer")
    /\ \E d \in Dims(SmallCells), elapsed \in {0, RiseTicks - 1} :
          \E s1 \in Sides(d[1], d[2]), s2 \in Sides(d[1], d[2]) :
              players = [P1 |-> [s1 EXCEPT !.rise_timer = elapsed],
                         P2 |-> [s2 EXCEPT !.rise_timer = elapsed]]

ExchangeRiseStack ==
    /\ last.op = "init"
    /\ \E delta \in 1..MaxDelta :
          \E r \in BoardRiseStack(players, match, delta) :
              /\ players' = r.players
              /\ match' = r.match
              /\ last' = [op |-> "rise_stack", pre |-> players,
                          prematch |-> match, delta |-> delta]
    /\ UNCHANGED <<grid, frame>>

ExchangeResolveGarbage ==
    /\ last.op = "init"
    /\ \E r \in BoardResolveGarbage(players, match) :
          /\ players' = r.players
          /\ last' = [op |-> "resolve_garbage", pre |-> players,
                      prematch |-> match, delta |-> 0]
    /\ UNCHANGED <<grid, match, frame>>

NextExchange == ExchangeRiseStack \/ ExchangeResolveGarbage

SpecExchange == InitExchange /\ [][NextExchange]_vars

\* The two players' states exchanged, and the winner named accordingly.
Exchanged(ps) == [P1 |-> ps["P2"], P2 |-> ps["P1"]]

ExchangedMatch(m) ==
    [m EXCEPT !.winner = IF @ = "P1" THEN "P2" ELSE IF @ = "P2" THEN "P1" ELSE @]

\* C28: the result of rise_stack and of resolve_garbage does not depend on
\* player 1 being processed before player 2: the run from the state with the
\* two players exchanged can yield the exchanged result, garbage counters
\* and designated winner included.
C28_OrderIndependent ==
    /\ last.op = "rise_stack" =>
          [players |-> Exchanged(players), match |-> ExchangedMatch(match)]
              \in BoardRiseStack(Exchanged(last.pre), ExchangedMatch(last.prematch),
                                 last.delta)
    /\ last.op = "resolve_garbage" =>
          Exchanged(players)
              \in {r.players : r \in BoardResolveGarbage(Exchanged(last.pre),
                                                         last.prematch)}


(***************************************************************************)
(* SpecDelay: one per-player step (gravity tick, clear-delay tick, swap,   *)
(* rise tick, incoming garbage) from every board of up to SmallCells       *)
(* cells, with pending_clear, settled and chain_active either way, every   *)
(* phase of the clear-delay timer and the gravity and rise timers about to *)
(* fire.                                                                   *)
(***************************************************************************)
InitDelay ==
    /\ grid = GridNew(0, 0)
    /\ frame = NoFrame
    /\ last = [op |-> "init"]
    /\ match = MatchNew("OnePlayer")
    /\ \E g \in BoardsOver(CellValues, SmallCells), active \in BOOLEAN,
          pending \in BOOLEAN, settled \in BOOLEAN, elapsed \in 0..(ClearTicks - 1) :
          players = [P1 |-> [BoardPlayerNew(g.width, g.height) EXCEPT
                                !.grid = g,
                                !.chain_active = active,
                                !.chain_index = IF active THEN 1 ELSE 0,
                                !.pending_clear = pending,
                                !.settled = settled,
                                !.garbage_incoming = 1,
                                !.clear_timer = elapsed,
                                !.gravity_timer = GravityTicks - 1,
                                !.rise_timer = RiseTicks - 1]]

NextDelay ==
    \/ ChainGravityCall
    \/ ProcessClearDelayCall
    \/ ChainSwapCall
    \/ ChainRiseCall
    \/ ChainIncomingCall

SpecDelay == InitDelay /\ [][NextDelay]_vars

\* The number of normal blocks on the board.
NormalCount(g) == Cardinality({i \in DOMAIN g.cells : g.cells[i].kind = "Normal"})

\* C29: a clear pass executes only on a tick at which the clear-delay timer
\* finishes while pending_clear and settled are both true; the clear-delay
\* timer does not advance while either flag is false; and a gravity step
\* that moves a block sets settled to false and pending_clear to false.
C29_ClearDelayGated ==
    last.op # "init" =>
        LET p == players["P1"]
            q == last.pre
            due == /\ last.op = "process_clear_delay"
                   /\ q.pending_clear /\ q.settled
                   /\ q.clear_timer + last.delta >= ClearTicks
        IN  /\ (last.op = "process_clear_delay" /\ last.pass) => due
            /\ NormalCount(p.grid) < NormalCount(q.grid) => due
            /\ (~q.pending_clear \/ ~q.settled) =>
                  /\ p.clear_timer \in {q.clear_timer, TimerReset}
                  /\ last.op = "process_clear_delay" => p = q
            /\ (/\ last.op = "process_player_gravity"
                /\ q.gravity_timer + last.delta >= GravityTicks
                /\ ~AtRest(q.grid)) =>
                  (~p.settled /\ ~p.pending_clear /\ p.clear_timer = q.clear_timer)

\* A gravity step that moved a block on a settled board with a clear
\* pending: the clear is cancelled.
C29_Witness ==
    /\ last.op = "process_player_gravity"
    /\ last.pre.pending_clear /\ last.pre.settled
    /\ last.pre.clear_timer = ClearTicks - 1
    /\ players["P1"].grid # last.pre.grid
    /\ ~players["P1"].pending_clear /\ ~players["P1"].settled

\* C30: while pending_clear is true no swap, rise or gravity tick restarts
\* the clear-delay timer, and the pending clear executes on the clear-delay
\* tick at which the delay has elapsed on a settled board.
C30_NoRetrigger ==
    LET p == players["P1"]
        q == last.pre
    IN  /\ (/\ last.op \in {"try_swap", "rise_player", "process_player_gravity"}
            /\ q.pending_clear) => p.clear_timer = q.clear_timer
        /\ (/\ last.op = "process_clear_delay"
            /\ q.pending_clear /\ q.settled
            /\ q.clear_timer + last.delta >= ClearTicks) => last.pass


(***************************************************************************)
(* SpecSchedule: the frames of a two-player game.  In every frame each of  *)
(* the four systems apply_gravity_system, update_clear_delay,              *)
(* resolve_garbage and rise_stack runs once.  main() adds them to Update   *)
(* one by one and constrains only resolve_garbage, which runs after        *)
(* update_clear_delay; the order of the others is the scheduler's choice,  *)
(* so every order that respects the constraint is a run.  frame.ran is the *)
(* sequence of the systems that have run in the frame.  The game is        *)
(* followed for MaxSchedFrames frames.                                     *)
(***************************************************************************)
MaxSchedFrames == 2

SchedSystems ==
    {"apply_gravity_system", "update_clear_delay", "resolve_garbage", "rise_stack"}

HasRun(system) == \E k \in 1..Len(frame.ran) : frame.ran[k] = system

\* The system may run now: it has not run in this frame, and the systems it
\* was ordered after have.
MayRun(system) ==
    /\ ~HasRun(system)
    /\ system = "resolve_garbage" => HasRun("update_clear_delay")

RanNow(system) == [frame EXCEPT !.ran = Append(@, system)]

InitSchedule ==
    /\ grid = GridNew(0, 0)
    /\ frame = [delta |-> 0, ran |-> <<>>, count |-> 0]
    /\ last = [op |-> "init"]
    /\ players = [p \in PlayerId |-> ResetPlayer(PlayerStateNew)]
    /\ match = MatchNew("TwoPlayer")

SchedApplyGravity ==
    /\ MayRun("apply_gravity_system")
    /\ \E rd \in [PlayerId -> GravityReads] :
          players' = IF match.active THEN players
                     ELSE [p \in PlayerId |->
                             ProcessPlayerGravity(players[p], rd[p].fired, rd[p].moved,
                                                  rd[p].has_matches, rd[p].conv_match)]
    /\ frame' = RanNow("apply_gravity_system")
    /\ last' = [op |-> "system"]
    /\ UNCHANGED <<grid, match>>

SchedUpdateClearDelay ==
    /\ MayRun("update_clear_delay")
    /\ \E rd \in [PlayerId -> ClearReads] :
          /\ \A p \in PlayerId :
                (rd[p].fired /\ rd[p].stats.cleared > 0)
                    => players[p].chain_index < MaxGameChain
          /\ players' = IF match.active THEN players
                        ELSE [p \in PlayerId |->
                                ProcessClearDelay(players[p], rd[p].fired, rd[p].stats)]
    /\ frame' = RanNow("update_clear_delay")
    /\ last' = [op |-> "system"]
    /\ UNCHANGED <<grid, match>>

SchedResolveGarbage ==
    /\ MayRun("resolve_garbage")
    /\ \E ins1, ins2 \in BOOLEAN :
          LET r == ResolveGarbage(players, match, ins1, ins2)
          IN  /\ \A p \in PlayerId : r.transferred[p].garbage_incoming <= MaxGameIncoming
              /\ players' = r.players
    /\ frame' = RanNow("resolve_garbage")
    /\ last' = [op |-> "system"]
    /\ UNCHANGED <<grid, match>>

SchedRiseStack ==
    /\ MayRun("rise_stack")
    /\ \E rd \in [PlayerId -> RiseReads] :
          IF match.active THEN UNCHANGED <<players, match>>
          ELSE
              LET r == [p \in PlayerId |->
                          RisePlayer(players[p], rd[p].fired, rd[p].falling,
                                     rd[p].top, rd[p].has_matches)]
              IN  /\ players' = [p \in PlayerId |-> r[p].player]
                  /\ match' = IF r["P1"].over
                              THEN [match EXCEPT !.active = TRUE, !.winner = "P2",
                                                 !.timer_done = FALSE]
                              ELSE IF r["P2"].over
                              THEN [match EXCEPT !.active = TRUE, !.winner = "P1",
                                                 !.timer_done = FALSE]
                              ELSE match
    /\ frame' = RanNow("rise_stack")
    /\ last' = [op |-> "system"]
    /\ UNCHANGED grid

\* Every system has run: the next frame begins.
SchedNextFrame ==
    /\ \A s \in SchedSystems : HasRun(s)
    /\ frame.count < MaxSchedFrames
    /\ frame' = [frame EXCEPT !.ran = <<>>, !.count = @ + 1]
    /\ last' = [op |-> "system"]
    /\ UNCHANGED <<grid, players, match>>

NextSchedule ==
    \/ SchedApplyGravity
    \/ SchedUpdateClearDelay
    \/ SchedResolveGarbage
    \/ SchedRiseStack
    \/ SchedNextFrame

SpecSchedule == InitSchedule /\ [][NextSchedule]_vars

\* The order of the steps within a tick.
FixedOrder ==
    <<"apply_gravity_system", "update_clear_delay", "resolve_garbage", "rise_stack">>

\* C31: within every tick the steps run in the fixed order gravity step,
\* clear-delay, garbage resolution, rise: the systems that have run in a
\* frame are the first ones of that order, in that order; in particular
\* garbage resolution runs once per tick, after the clear-delay step.
C31_FixedOrder ==
    /\ Len(frame.ran) <= Len(FixedOrder)
    /\ \A k \in 1..Len(frame.ran) : frame.ran[k] = FixedOrder[k]


(***************************************************************************)
(* SpecFalling: apply_gravity_step called once on every board of up to     *)
(* MaxCells cells, with what has_falling_garbage returns on that board.    *)
(***************************************************************************)
FallingGravityCall ==
    /\ last.op = "init"
    /\ LET r == ApplyGravityStep(grid)
       IN  /\ grid' = r.grid
           /\ last' = [op |-> "apply_gravity_step", pre |-> grid, moved |-> r.moved,
                       has_falling_garbage |-> HasFallingGarbage(grid)]
    /\ UNCHANGED <<players, match, frame>>

SpecFalling == InitGravity /\ [][FallingGravityCall]_vars

\* Some 4-connected garbage component of g has no cell in row 0 and has,
\* below each of its cells, an empty cell or a cell of its own.
SomeComponentQualifies(g) ==
    \E s \in GarbageCells(g) : Qualifies(g, ComponentOf(g, s))

\* C32: has_falling_garbage() is true iff some 4-connected garbage component
\* has no cell in row 0 and every cell directly below one of its cells is
\* empty or belongs to it; on every board this is exactly the condition
\* under which apply_gravity_step moves at least one garbage cell.
C32_FallingGarbage ==
    last.op = "apply_gravity_step" =>
        /\ last.has_falling_garbage <=> SomeComponentQualifies(last.pre)
        /\ last.has_falling_garbage <=> GarbageCells(grid) # GarbageCells(last.pre)

\* A board on which a garbage component of two cells falls while another
\* garbage component rests on the floor.
C32_Witness ==
    /\ last.op = "apply_gravity_step"
    /\ last.has_falling_garbage
    /\ GarbageCells(grid) # GarbageCells(last.pre)
    /\ \E s \in GarbageCells(last.pre) :
          /\ Qualifies(last.pre, ComponentOf(last.pre, s))
          /\ Cardinality(ComponentOf(last.pre, s)) = 2
    /\ \E s \in GarbageCells(last.pre) :
          ~Qualifies(last.pre, ComponentOf(last.pre, s))

\* The blocks of column x of g from row y up, bottom first.
RECURSIVE ColumnBlocks(_, _, _)
ColumnBlocks(g, x, y) ==
    IF y >= g.height THEN <<>>
    ELSE (IF Cell(g, x, y) # None THEN <<Cell(g, x, y)>> ELSE <<>>)
         \o ColumnBlocks(g, x, y + 1)

\* The rows of those blocks.
RECURSIVE ColumnRows(_, _, _)
ColumnRows(g, x, y) ==
    IF y >= g.height THEN <<>>
    ELSE (IF Cell(g, x, y) # None THEN <<y>> ELSE <<>>) \o ColumnRows(g, x, y + 1)

\* C34: apply_gravity_step never creates, destroys or alters a block: in
\* every column the bottom-to-top sequence of blocks is the same before and
\* after the step, every block's row decreases by 0 or 1 (so no two blocks
\* end in one cell), and the call returns true iff at least one block moved.
C34_GravityKeepsBlocks ==
    last.op = "apply_gravity_step" =>
        /\ grid.width = last.pre.width /\ grid.height = last.pre.height
        /\ \A x \in 0..(grid.width - 1) :
              LET before == ColumnRows(last.pre, x, 0)
                  after == ColumnRows(grid, x, 0)
              IN  /\ ColumnBlocks(grid, x, 0) = ColumnBlocks(last.pre, x, 0)
                  /\ Len(after) = Len(before)
                  /\ \A k \in 1..Len(before) : after[k] \in {before[k], before[k] - 1}
        /\ last.moved <=> grid # last.pre

\* A step on a column that holds a normal block over a gap over cracked
\* garbage: the block comes down, the garbage stays, the order is kept.
C34_Witness ==
    /\ last.op = "apply_gravity_step"
    /\ last.moved
    /\ last.pre.height = 3
    /\ Cell(last.pre, 0, 0) = Garbage(TRUE)
    /\ Cell(last.pre, 0, 1) = None
    /\ Cell(last.pre, 0, 2).kind = "Normal"
    /\ Cell(grid, 0, 1) = Cell(last.pre, 0, 2)
    /\ Cell(grid, 0, 0) = Garbage(TRUE)
    /\ \E x \in 1..(grid.width - 1) :
          /\ Cell(last.pre, x, 2) = Garbage(FALSE) /\ Cell(last.pre, x, 1) = None
          /\ Cell(grid, x, 1) = Garbage(FALSE)


(***************************************************************************)
(* SpecBuild: build_garbage_rows called once for every width of 1..MaxW    *)
(* and every number of units of 1..MaxUnits, and apply_incoming_garbage    *)
(* called once on a ready player with that many units queued, on every     *)
(* board of up to MaxCells cells of that width.                            *)
(***************************************************************************)
MaxUnits == 7        \* most units drawn, more than any board drawn holds

InitBuild ==
    /\ grid = GridNew(0, 0)
    /\ frame = NoFrame
    /\ match = MatchNew("TwoPlayer")
    /\ last = [op |-> "init"]
    /\ \E g \in BoardsOver(OccupancyValues, MaxCells), units \in 1..MaxUnits :
          /\ g.width >= 1
          /\ players =
                [P1 |-> [BoardPlayerNew(g.width, g.height) EXCEPT
                            !.grid = g, !.garbage_incoming = units],
                 P2 |-> BoardPlayerNew(g.width, g.height)]

BuildGarbageRowsCall ==
    /\ last.op = "init"
    /\ \E rows \in BuildGarbageRows(players["P1"].grid.width,
                                    players["P1"].garbage_incoming) :
          last' = [op |-> "build_garbage_rows",
                   width |-> players["P1"].grid.width,
                   units |-> players["P1"].garbage_incoming,
                   rows |-> rows]
    /\ UNCHANGED <<grid, players, match, frame>>

BuildApplyIncomingCall ==
    /\ last.op = "init"
    /\ \E o \in BoardApplyIncomingGarbage(players["P1"]) :
          /\ players' = [players EXCEPT !["P1"] = o.player]
          /\ last' = [op |-> "apply_incoming_garbage", pre |-> players["P1"],
                      tried |-> o.tried, inserted |-> o.inserted]
    /\ UNCHANGED <<grid, match, frame>>

NextBuild == BuildGarbageRowsCall \/ BuildApplyIncomingCall

SpecBuild == InitBuild /\ [][NextBuild]_vars

\* The true cells of mask are the blocks columns from some start on, all
\* inside the row.
SingleRun(mask, blocks) ==
    \E start \in 0..(Len(mask) - blocks) :
        \A k \in 1..Len(mask) : mask[k] <=> (k - 1 >= start /\ k - 1 < start + blocks)

\* The cells in which two grids of one size differ.
ChangedCells(before, after) ==
    {i \in DOMAIN before.cells : after.cells[i] # before.cells[i]}

\* C33: for every width >= 1 and units >= 1, build_garbage_rows returns
\* floor(units/width) all-true rows followed by at most one partial row whose
\* true cells form one contiguous run of length units mod width inside the
\* row; every row has length width and the true cells number units; so a
\* successful apply_incoming_garbage turns exactly garbage_incoming empty
\* cells into intact garbage.
C33_BuildGarbageRows ==
    /\ last.op = "build_garbage_rows" =>
          LET w == last.width
              full_rows == last.units \div w
              rem == last.units % w
              rows == last.rows
          IN  /\ Len(rows) = full_rows + (IF rem > 0 THEN 1 ELSE 0)
              /\ \A r \in 1..Len(rows) : Len(rows[r]) = w
              /\ \A r \in 1..full_rows : \A k \in 1..w : rows[r][k]
              /\ rem > 0 => SingleRun(rows[full_rows + 1], rem)
              /\ Cardinality({c \in (1..Len(rows)) \X (1..w) : rows[c[1]][c[2]]})
                    = last.units
    /\ (last.op = "apply_incoming_garbage" /\ last.inserted) =>
          LET before == last.pre.grid
              after == players["P1"].grid
          IN  /\ after.width = before.width /\ after.height = before.height
              /\ Cardinality(ChangedCells(before, after)) = last.pre.garbage_incoming
              /\ \A i \in ChangedCells(before, after) :
                    before.cells[i] = None /\ after.cells[i] = Garbage(FALSE)
              /\ players["P1"].garbage_incoming = 0

\* Five units on a width of three: one full row and a partial row of two
\* cells that starts in the second column.
C33_Witness ==
    /\ last.op = "build_garbage_rows"
    /\ last.width = 3 /\ last.units = 5
    /\ last.rows = <<(<<TRUE, TRUE, TRUE>>), (<<FALSE, TRUE, TRUE>>)>>

\* Five units inserted on a board of width three whose bottom row is occupied.
C33_WitnessApplied ==
    /\ last.op = "apply_incoming_garbage" /\ last.inserted
    /\ last.pre.garbage_incoming = 5
    /\ last.pre.grid.width = 3
    /\ \E i \in DOMAIN last.pre.grid.cells : last.pre.grid.cells[i] # None


\* C35: in every reachable state each player has chain_active = true iff
\* chain_index >= 1 (chain_index is 0 exactly when no chain is active).
C35_ChainIndexActive ==
    \A p \in PlayerId : players[p].chain_active <=> players[p].chain_index >= 1

\* Player 1 in the second step of a chain while player 2's chain has just
\* ended.
C35_Witness ==
    /\ players["P1"].chain_active /\ players["P1"].chain_index = 2
    /\ ~players["P2"].chain_active /\ players["P2"].chain_index = 0
    /\ players["P2"].chain_ended


(***************************************************************************)
(* SpecOutlive: one step of a player (a gravity tick, a clear-delay tick,  *)
(* a swap, a rise tick, an application of incoming garbage or the reset of *)
(* a restart) from every player state in which cracked garbage is on the   *)
(* board only while the chain is active: every board of up to MaxCells     *)
(* cells over one colour, pending_clear and settled either way, the chain  *)
(* inactive or in its first step, the timers about to fire.                *)
(***************************************************************************)
HasCracked(g) == \E i \in DOMAIN g.cells : g.cells[i] = Garbage(TRUE)

\* The number of cracked garbage cells of g.
CrackedCount(g) == Cardinality({i \in DOMAIN g.cells : g.cells[i] = Garbage(TRUE)})

InitOutlive ==
    /\ grid = GridNew(0, 0)
    /\ frame = NoFrame
    /\ last = [op |-> "init"]
    /\ match = MatchNew("TwoPlayer")
    /\ \E g \in BoardsOver(OccupancyValues, MaxCells), active \in BOOLEAN,
          pending \in BOOLEAN, settled \in BOOLEAN :
          /\ HasCracked(g) => active
          /\ players = [P1 |-> [BoardPlayerNew(g.width, g.height) EXCEPT
                                   !.grid = g,
                                   !.chain_active = active,
                                   !.chain_index = IF active THEN 1 ELSE 0,
                                   !.pending_clear = pending,
                                   !.settled = settled,
                                   !.garbage_incoming = 1,
                                   !.clear_timer = ClearTicks - 1,
                                   !.gravity_timer = GravityTicks - 1,
                                   !.rise_timer = RiseTicks - 1]]

\* reset_player, as handle_restart calls it.
OutliveResetCall ==
    /\ last.op = "init"
    /\ \E r \in BoardResetPlayer(players["P1"]) :
          /\ players' = [players EXCEPT !["P1"] = r.player]
          /\ last' = [op |-> "reset_player", pre |-> players["P1"], delta |-> 0]
    /\ UNCHANGED <<grid, match, frame>>

NextOutlive ==
    \/ ChainGravityCall
    \/ ProcessClearDelayCall
    \/ ChainSwapCall
    \/ ChainRiseCall
    \/ ChainIncomingCall
    \/ OutliveResetCall

SpecOutlive == InitOutlive /\ [][NextOutlive]_vars

\* C36: if a cell of a player's grid holds cracked garbage then that
\* player's chain_active is true: garbage is cracked only by a clear pass,
\* which starts or continues a chain, and no cracked garbage is left on the
\* tick the chain ends.
C36_CrackedWithinChain ==
    /\ HasCracked(players["P1"].grid) => players["P1"].chain_active
    /\ last.op # "init" =>
          /\ CrackedCount(players["P1"].grid) > CrackedCount(last.pre.grid)
                => /\ last.op = "process_clear_delay"
                   /\ players["P1"].chain_index = last.pre.chain_index + 1
          /\ (last.pre.chain_active /\ ~players["P1"].chain_active)
                => ~HasCracked(players["P1"].grid)

\* A clear pass on a board without cracked garbage and with no chain active
\* cracked a garbage cell and started the chain.
C36_Witness ==
    /\ last.op = "process_clear_delay"
    /\ ~last.pre.chain_active
    /\ ~HasCracked(last.pre.grid)
    /\ HasCracked(players["P1"].grid)
    /\ players["P1"].chain_active

\* A gravity tick ended a chain on a board with two cracked cells and left
\* none.
C36_WitnessConverted ==
    /\ last.op = "process_player_gravity"
    /\ last.pre.chain_active /\ ~players["P1"].chain_active
    /\ CrackedCount(last.pre.grid) = 2
    /\ ~HasCracked(players["P1"].grid)


\* C37: immediately after clear_matches_once_with_stats returns, the grid
\* holds no run of three or more normal blocks of one colour: has_matches()
\* is false, and a second call returns cleared = 0 and groups = 0 and leaves
\* the grid as it is.
C37_ClearIsFinal ==
    /\ [](last.op = "clear_matches_once_with_stats"
            => (~HasRunOfThree(grid) /\ ~HasMatches(grid)))
    /\ [][last.op = "clear_matches_once_with_stats"
            => (last'.cleared = 0 /\ last'.groups = 0 /\ grid' = grid)]_vars

\* A call that cleared a row of three and left two blocks of that colour side
\* by side in the row above.
C37_Witness ==
    /\ last.op = "clear_matches_once_with_stats"
    /\ last.cleared = 3 /\ last.groups = 1
    /\ grid.width = 3 /\ grid.height = 2
    /\ \A x \in 0..2 : Cell(grid, x, 0) = None
    /\ Cell(grid, 0, 1).kind = "Normal"
    /\ Cell(grid, 1, 1) = Cell(grid, 0, 1)
    /\ Cell(last.pre, 0, 0) = Cell(grid, 0, 1)
    /\ Cell(grid, 2, 1) = None
    /\ ~HasMatches(grid)


(***************************************************************************)
(* SpecOver: one system run in a two-player game, the match running, over  *)
(* with the match-over timer below 1 second, or over with the timer at 1   *)
(* second.  Player 1 is on every board of up to SmallCells cells with      *)
(* pending_clear, settled and rise_paused either way and garbage queued or *)
(* not; player 2 is on the empty board with a finished chain to hand over. *)
(* Every timer is about to fire.  Here a player also carries score,        *)
(* elapsed (in ticks) and rise_level.                                      *)
(***************************************************************************)
SpeedupTicks == 2    \* RISE_SPEEDUP_INTERVAL in ticks

\* The fields of PlayerState the per-player steps on a board leave out.
Tally(score, elapsed) ==
    [score |-> score, elapsed |-> elapsed, rise_level |-> elapsed \div SpeedupTicks]

InitOver ==
    /\ grid = GridNew(0, 0)
    /\ frame = NoFrame
    /\ last = [op |-> "init"]
    /\ \E active \in BOOLEAN, done \in BOOLEAN :
          /\ done => active
          /\ match = [MatchNew("TwoPlayer") EXCEPT
                         !.active = active,
                         !.winner = IF active THEN "P2" ELSE "None",
                         !.timer_done = done]
    /\ \E g \in BoardsOver(OccupancyValues, SmallCells),
          pending \in BOOLEAN, settled \in BOOLEAN, paused \in BOOLEAN,
          incoming \in 0..1 :
          players =
             [P1 |-> [BoardPlayerNew(g.width, g.height) EXCEPT
                         !.grid = g,
                         !.pending_clear = pending,
                         !.settled = settled,
                         !.rise_paused = paused,
                         !.garbage_incoming = incoming,
                         !.gravity_timer = GravityTicks - 1,
                         !.clear_timer = ClearTicks - 1,
                         !.rise_timer = RiseTicks - 1,
                         !.rise_pause_timer = RisePauseTicks - 1]
                     @@ Tally(3, SpeedupTicks - 1),
              P2 |-> [BoardPlayerNew(g.width, g.height) EXCEPT
                         !.chain_ended = TRUE,
                         !.garbage_outgoing = 1,
                         !.rise_timer = RiseTicks - 1]
                     @@ Tally(0, SpeedupTicks - 1)]

\* What a system found: the players and the MatchOver before it ran.
Found(system) == [op |-> system, players |-> players, match |-> match]

\* handle_input: for each player a swap pressed or not, then at most one
\* cursor move.
OverHandleInput ==
    /\ last.op = "init"
    /\ \E swap \in [PlayerId -> BOOLEAN], dir \in [PlayerId -> MoveChoices] :
          players' = IF match.active THEN players
                     ELSE [p \in PlayerId |->
                             LET q == IF swap[p] THEN BoardTrySwap(players[p])
                                      ELSE players[p]
                             IN  IF dir[p] = <<0, 0>> THEN q
                                 ELSE BoardMoveCursor(q, dir[p][1], dir[p][2])]
    /\ last' = Found("handle_input")
    /\ UNCHANGED <<grid, match, frame>>

OverApplyGravitySystem ==
    /\ last.op = "init"
    /\ \E delta \in 1..MaxDelta :
          IF match.active THEN UNCHANGED players
          ELSE \E r1 \in BoardProcessPlayerGravity(players["P1"], delta),
                  r2 \in BoardProcessPlayerGravity(players["P2"], delta) :
                  players' = [P1 |-> r1.player, P2 |-> r2.player]
    /\ last' = Found("apply_gravity_system")
    /\ UNCHANGED <<grid, match, frame>>

\* update_clear_delay; the score grows by what the pass cleared.
OverUpdateClearDelay ==
    /\ last.op = "init"
    /\ \E delta \in 1..MaxDelta :
          players' = IF match.active THEN players
                     ELSE [p \in PlayerId |->
                             LET r == BoardProcessClearDelay(players[p], delta)
                             IN  [r.player EXCEPT
                                     !.score = IF r.pass THEN @ + r.cleared ELSE @]]
    /\ last' = Found("update_clear_delay")
    /\ UNCHANGED <<grid, match, frame>>

OverResolveGarbage ==
    /\ last.op = "init"
    /\ \E r \in BoardResolveGarbage(players, match) : players' = r.players
    /\ last' = Found("resolve_garbage")
    /\ UNCHANGED <<grid, match, frame>>

OverRiseStack ==
    /\ last.op = "init"
    /\ \E delta \in 1..MaxDelta :
          \E r \in BoardRiseStack(players, match, delta) :
              /\ players' = r.players
              /\ match' = r.match
    /\ last' = Found("rise_stack")
    /\ UNCHANGED <<grid, frame>>

OverUpdateRisePause ==
    /\ last.op = "init"
    /\ \E delta \in 1..MaxDelta :
          players' = IF match.active THEN players
                     ELSE [p \in PlayerId |-> BoardTickRisePause(players[p], delta)]
    /\ last' = Found("update_rise_pause")
    /\ UNCHANGED <<grid, match, frame>>

\* update_time: elapsed grows by the delta; update_rise_speed replaces the
\* rise timer when the level, floor(elapsed / RISE_SPEEDUP_INTERVAL), has grown.
OverUpdateTime ==
    /\ last.op = "init"
    /\ \E delta \in 1..MaxDelta :
          players' = IF match.active THEN players
                     ELSE [p \in PlayerId |->
                             LET q == [players[p] EXCEPT !.elapsed = @ + delta]
                                 level == q.elapsed \div SpeedupTicks
                             IN  IF level <= q.rise_level THEN q
                                 ELSE [q EXCEPT !.rise_level = level,
                                                !.rise_timer = TimerReset]]
    /\ last' = Found("update_time")
    /\ UNCHANGED <<grid, match, frame>>

\* update_game_over_timer; reached: the accumulated seconds have reached 1.0.
OverUpdateGameOverTimer ==
    /\ last.op = "init"
    /\ \E reached \in BOOLEAN :
          match' = IF match.active /\ ~match.timer_done
                   THEN [match EXCEPT !.timer_done = reached]
                   ELSE match
    /\ last' = Found("update_game_over_timer")
    /\ UNCHANGED <<grid, players, frame>>

\* handle_restart; pressed: a restart key or button was just pressed.
OverHandleRestart ==
    /\ last.op = "init"
    /\ \E pressed \in BOOLEAN :
          IF match.active /\ match.timer_done /\ pressed
          THEN /\ \E r1 \in BoardResetPlayer(players["P1"]),
                     r2 \in BoardResetPlayer(players["P2"]) :
                     players' = [P1 |-> r1.player @@ Tally(0, 0),
                                 P2 |-> r2.player @@ Tally(0, 0)]
               /\ match' = [match EXCEPT !.active = FALSE, !.winner = "None",
                                         !.timer_done = FALSE]
          ELSE UNCHANGED <<players, match>>
    /\ last' = Found("handle_restart")
    /\ UNCHANGED <<grid, frame>>

NextOver ==
    \/ OverHandleInput
    \/ OverApplyGravitySystem
    \/ OverUpdateClearDelay
    \/ OverResolveGarbage
    \/ OverRiseStack
    \/ OverUpdateRisePause
    \/ OverUpdateTime
    \/ OverUpdateGameOverTimer
    \/ OverHandleRestart

SpecOver == InitOver /\ [][NextOver]_vars

\* Player p is as reset_player leaves a player, on a board of the size of g.
FreshlyReset(p, g) ==
    /\ p.grid.width = g.width /\ p.grid.height = g.height
    /\ \A i \in DOMAIN p.grid.cells : p.grid.cells[i].kind # "Garbage"
    /\ p.cursor = CursorNew(0, 0)
    /\ p.score = 0 /\ p.elapsed = 0 /\ p.rise_level = 0
    /\ ~p.pending_clear /\ p.settled /\ ~p.rise_paused
    /\ ~p.chain_active /\ p.chain_index = 0 /\ ~p.chain_ended
    /\ p.garbage_outgoing = 0 /\ p.garbage_incoming = 0
    /\ p.clear_timer = 0 /\ p.gravity_timer = 0
    /\ p.rise_timer = 0 /\ p.rise_pause_timer = 0

\* C38: while match_over.active is true no gameplay step (input, gravity,
\* clear delay, garbage resolution, rise, rise pause, time) changes either
\* player; the only transition that changes them is a restart, which is
\* accepted only after the match-over timer has reached 1 second, resets
\* both players and clears the match-over flag and the winner.
C38_MatchOverFreezes ==
    (last.op # "init" /\ last.match.active) =>
        \/ /\ players = last.players
           /\ match.active /\ match.winner = last.match.winner
        \/ /\ last.op = "handle_restart"
           /\ last.match.timer_done
           /\ \A p \in PlayerId : FreshlyReset(players[p], last.players[p].grid)
           /\ ~match.active /\ match.winner = "None"

\* A restart accepted in a match that was over, from a board with garbage
\* queued and a clear pending.
C38_Witness ==
    /\ last.op = "handle_restart"
    /\ last.match.active /\ last.match.timer_done
    /\ last.players["P1"].pending_clear
    /\ last.players["P1"].garbage_incoming = 1
    /\ players # last.players
    /\ ~match.active

\* resolve_garbage ran in a match that was over, with a chain to hand over
\* and garbage queued on a settled board, and changed nothing.
C38_WitnessFrozen ==
    /\ last.op = "resolve_garbage"
    /\ last.match.active
    /\ last.players["P2"].chain_ended /\ last.players["P2"].garbage_outgoing = 1
    /\ last.players["P1"].settled /\ ~last.players["P1"].pending_clear
    /\ ~last.players["P1"].rise_paused
    /\ players = last.players


(***************************************************************************)
(* SpecLive: a one-player game followed frame by frame with no swap        *)
(* pressed, from every player state drawn: every board of up to MaxCells   *)
(* cells, the chain active or not, pending_clear, settled and rise_paused  *)
(* either way, the gravity timer at the start or at the end of its period, *)
(* the rise timer about to fire.                                           *)
(* Every frame has one Time::delta and each of apply_gravity_system,       *)
(* rise_stack, update_clear_delay and update_rise_pause runs once in it;   *)
(* the runs followed are those in which every frame runs them in the order *)
(* of their registration.  resolve_garbage returns at once in this mode,   *)
(* and with no swap pressed handle_input writes only the cursor, which     *)
(* none of these systems reads.  SpecLiveFair adds that frames keep        *)
(* coming: Update runs every system in every frame.                        *)
(***************************************************************************)
LiveSystems ==
    <<"apply_gravity_system", "rise_stack", "update_clear_delay", "update_rise_pause">>

InitLive ==
    /\ grid = GridNew(0, 0)
    /\ last = [op |-> "init", ended |-> FALSE]
    /\ match = MatchNew("OnePlayer")
    /\ \E delta \in 1..MaxDelta : frame = [delta |-> delta, ran |-> 0, count |-> 0]
    /\ \E g \in BoardsOver(OccupancyValues, MaxCells), active \in BOOLEAN,
          pending \in BOOLEAN, settled \in BOOLEAN, paused \in BOOLEAN,
          gravity \in {0, GravityTicks - 1}, clear \in {0},
          rise \in {RiseTicks - 1} :
          /\ (\E i \in DOMAIN g.cells : g.cells[i] = Garbage(TRUE)) => active
          /\ players = [P1 |-> [BoardPlayerNew(g.width, g.height) EXCEPT
                                   !.grid = g,
                                   !.chain_active = active,
                                   !.chain_index = IF active THEN 1 ELSE 0,
                                   !.pending_clear = pending,
                                   !.settled = settled,
                                   !.rise_paused = paused,
                                   !.gravity_timer = gravity,
                                   !.clear_timer = clear,
                                   !.rise_timer = rise]]

\* It is the system's turn: frame.ran systems have run in this frame.
LiveTurn(system) == frame.ran < Len(LiveSystems) /\ LiveSystems[frame.ran + 1] = system

LiveRan(system) == [frame EXCEPT !.ran = @ + 1]

\* apply_gravity_system; last.ended: the call ended the chain.
LiveApplyGravity ==
    /\ LiveTurn("apply_gravity_system")
    /\ IF match.active
       THEN UNCHANGED players /\ last' = [op |-> "system", ended |-> FALSE]
       ELSE \E r \in BoardProcessPlayerGravity(players["P1"], frame.delta) :
               /\ players' = [players EXCEPT !["P1"] = r.player]
               /\ last' = [op |-> "system", ended |-> r.ended]
    /\ frame' = LiveRan("apply_gravity_system")
    /\ UNCHANGED <<grid, match>>

LiveRiseStack ==
    /\ LiveTurn("rise_stack")
    /\ \E r \in BoardRiseStack(players @@ [P2 |-> players["P1"]], match, frame.delta) :
          /\ players' = [P1 |-> r.players["P1"]]
          /\ match' = r.match
    /\ last' = [op |-> "system", ended |-> FALSE]
    /\ frame' = LiveRan("rise_stack")
    /\ UNCHANGED grid

LiveUpdateClearDelay ==
    /\ LiveTurn("update_clear_delay")
    /\ players' = IF match.active THEN players
                  ELSE [players EXCEPT !["P1"] =
                           BoardProcessClearDelay(@, frame.delta).player]
    /\ last' = [op |-> "system", ended |-> FALSE]
    /\ frame' = LiveRan("update_clear_delay")
    /\ UNCHANGED <<grid, match>>

LiveUpdateRisePause ==
    /\ LiveTurn("update_rise_pause")
    /\ players' = IF match.active THEN players
                  ELSE [players EXCEPT !["P1"] = BoardTickRisePause(@, frame.delta)]
    /\ last' = [op |-> "system", ended |-> FALSE]
    /\ frame' = LiveRan("update_rise_pause")
    /\ UNCHANGED <<grid, match>>

\* Every system has run: the next frame begins, with its own delta.
LiveNextFrame ==
    /\ frame.ran = Len(LiveSystems)
    /\ \E delta \in 1..MaxDelta : frame' = [delta |-> delta, ran |-> 0, count |-> 0]
    /\ last' = [op |-> "frame", ended |-> FALSE]
    /\ UNCHANGED <<grid, players, match>>

NextLive ==
    \/ LiveApplyGravity
    \/ LiveRiseStack
    \/ LiveUpdateClearDelay
    \/ LiveUpdateRisePause
    \/ LiveNextFrame

SpecLive == InitLive /\ [][NextLive]_vars

\* The schedule advances: a system runs or the next frame begins.  Every step
\* of NextLive is such a step, and one is always possible.
LiveAdvance ==
    frame' \in [delta : 1..MaxDelta, ran : 0..Len(LiveSystems), count : {0}]

SpecLiveFair == SpecLive /\ WF_frame(LiveAdvance)

\* C39: under fair ticking of the gravity, clear-delay and rise timers and
\* with no further swap input, every state in which the player's chain is
\* active is eventually followed by a state in which the chain has ended
\* (chain_active false and chain_ended raised) or the match is over.
C39_ChainEnds ==
    players["P1"].chain_active
        ~> \/ ~players["P1"].chain_active /\ players["P1"].chain_ended
           \/ match.active

\* A gravity tick has just ended the chain.
C39_Witness ==
    /\ last.ended
    /\ ~players["P1"].chain_active /\ players["P1"].chain_ended
    /\ ~match.active


(***************************************************************************)
(* SpecQueue: the two-player game of Spec with the queue of incoming       *)
(* garbage followed up to MaxQueue units.  An insertion can succeed only   *)
(* when the rows built from the queue are no more than the board is tall.  *)
(***************************************************************************)
MaxQueue == 96       \* highest garbage_incoming reached in SpecQueue

InitQueue ==
    /\ grid = GridNew(0, 0)
    /\ frame = NoFrame
    /\ last = [op |-> "init"]
    /\ players = [p \in PlayerId |-> ResetPlayer(PlayerStateNew)]
    /\ match = MatchNew("TwoPlayer")

\* resolve_garbage; ins1, ins2: what insert_garbage_rows_from_top returns,
\* false whenever the queue holds more than width * height units.
QueueResolveGarbage ==
    /\ \E ins1, ins2 \in BOOLEAN :
          LET r == ResolveGarbage(players, match, ins1, ins2)
          IN  /\ \A p \in PlayerId : r.transferred[p].garbage_incoming <= MaxQueue
              /\ ins1 => r.cancelled["P1"].garbage_incoming <= GRID_W * GRID_H
              /\ ins2 => r.cancelled["P2"].garbage_incoming <= GRID_W * GRID_H
              /\ players' = r.players
              /\ last' = [op |-> "resolve_garbage", pre |-> players, ran |-> r.ran,
                          transferred |-> r.transferred, cancelled |-> r.cancelled]
    /\ UNCHANGED <<grid, match, frame>>

NextQueue ==
    \/ HandleInput
    \/ ApplyGravitySystem
    \/ UpdateClearDelay
    \/ QueueResolveGarbage
    \/ RiseStack
    \/ UpdateRisePause
    \/ UpdateGameOverTimer
    \/ HandleRestart

SpecQueue == InitQueue /\ [][NextQueue]_vars

\* C40: in every reachable state of a two-player match each player's
\* garbage_incoming is at most width * height units, so that the rows built
\* from the queue never number more than the board height.
C40_IncomingBounded ==
    \A p \in PlayerId : players[p].garbage_incoming <= GRID_W * GRID_H

====
